---- MODULE Spec2Model ----
(***************************************************************************)
(* ChatGPT chat exporter: message locator, speaker attribution, duplicate  *)
(* detection, sender sequence correction and document assembly of the      *)
(* three exporter variants                                                 *)
(*   "markdownImages"  Markdown exporter with image embedding and the      *)
(*                     reliable flag (src/unnamed/part_000)                *)
(*   "markdown"        plain Markdown exporter (src/exporter-markdown.js)  *)
(*   "html"            styled-HTML exporter (src/exporter-html.js)         *)
(*                                                                         *)
(* Strings are run-length coded: a string is a sequence of runs            *)
(* [c |-> character, n |-> repetitions], so that the lengths the code      *)
(* compares (5, 30, 100, 200, 300, 500, 100000) keep their real values.    *)
(***************************************************************************)
EXTENDS Integers, Sequences, FiniteSets, TLC

\* ------------------------------------------------------------------------
\* Bounds of the model
\* ------------------------------------------------------------------------
MaxTurns == 3

MaxAvatars == 1

MaxNodes == 3
\* turns of a run of the image embedding
MaxEmbedTurns == 2
\* located turns of a run whose control flow is followed to the download
MaxRunTurns == 3
\* images of such a turn
MaxRunImages == 2
\* located turns of two runs compared with one another
MaxTwinTurns == 2
\* child nodes of a turn element
MaxChildren == 2
\* milliseconds by which the clock advances
TickMs == 5000

\* ------------------------------------------------------------------------
\* Program constants
\* ------------------------------------------------------------------------
HashLen == 100

LongTextLen == 200

ShortTurnLen == 100

LongTurnLen == 300

CorrectionFloor == 500

MaxTextLen == 100000
\* setTimeout(..., 5000) of imageToBase64
TimeoutMs == 5000

Variants == {"markdownImages", "markdown", "html"}

\* ------------------------------------------------------------------------
\* Run-length coded strings
\* ------------------------------------------------------------------------
R(c, n) == [c |-> c, n |-> n]

Whitespace == {" ", "\n", "\t"}

RECURSIVE StrLen(_)
StrLen(s) == IF s = <<>> THEN 0 ELSE Head(s).n + StrLen(Tail(s))

\* String.prototype.substring(0, k)
RECURSIVE Substring0(_, _)
Substring0(s, k) ==
    IF k = 0 \/ s = <<>> THEN <<>>
    ELSE IF Head(s).n <= k
         THEN <<Head(s)>> \o Substring0(Tail(s), k - Head(s).n)
         ELSE <<R(Head(s).c, k)>>

\* String.prototype.replace(/\s+/g, ' ')
RECURSIVE CollapseWhitespace(_)
CollapseWhitespace(s) ==
    IF s = <<>> THEN <<>>
    ELSE LET h == Head(s)
             r == CollapseWhitespace(Tail(s))
         IN  IF h.c \in Whitespace
             THEN IF r # <<>> /\ Head(r).c = " " THEN r ELSE <<R(" ", 1)>> \o r
             ELSE <<h>> \o r

RECURSIVE TrimLeft(_)
TrimLeft(s) ==
    IF s # <<>> /\ Head(s).c \in Whitespace THEN TrimLeft(Tail(s)) ELSE s

RECURSIVE TrimRight(_)
TrimRight(s) ==
    IF s # <<>> /\ s[Len(s)].c \in Whitespace
    THEN TrimRight(SubSeq(s, 1, Len(s) - 1))
    ELSE s

\* String.prototype.trim()
Trim(s) == TrimRight(TrimLeft(s))

\* text.replace(/\s+/g, ' ').trim().split(' ').length of a non-empty text
RECURSIVE CountSpaces(_)
CountSpaces(s) ==
    IF s = <<>> THEN 0
    ELSE (IF Head(s).c = " " THEN Head(s).n ELSE 0) + CountSpaces(Tail(s))

WordCount(s) == CountSpaces(Trim(CollapseWhitespace(s))) + 1

\* Five words of n characters c, separated by single spaces.
Phrase(c, n) ==
    <<R(c, n), R(" ", 1), R(c, n), R(" ", 1), R(c, n), R(" ", 1), R(c, n),
      R(" ", 1), R(c, n)>>

\* ------------------------------------------------------------------------
\* Turns: what identifySender and the main loop read of a located element
\* ------------------------------------------------------------------------
\* values of the data-message-author-role attribute ("" = absent or empty)
Roles == {"", "user", "assistant"}

\* An avatar image: the keyword contained in its alt, src and class
\* ("none": no keyword).  "chatgpt" contains "gpt".
Includes(value, keyword) ==
    \/ value = keyword
    \/ value = "chatgpt" /\ keyword = "gpt"

Avatar(alt, src, cls) == [alt |-> alt, src |-> src, cls |-> cls]

AvatarSamples ==
    { Avatar("none", "none", "none"),
      Avatar("user", "none", "none"),
      Avatar("none", "user", "assistant"),
      Avatar("gpt", "none", "none"),
      Avatar("none", "chatgpt", "none"),
      Avatar("none", "none", "chatgpt"),
      Avatar("none", "gpt", "none") }

RECURSIVE SeqsUpTo(_, _)
SeqsUpTo(S, n) ==
    IF n = 0 THEN {<<>>}
    ELSE LET shorter == SeqsUpTo(S, n - 1)
         IN  shorter \cup {Append(q, x) : q \in shorter, x \in S}

AvatarLists == SeqsUpTo(AvatarSamples, MaxAvatars)

\* the alternatives of the two opener patterns of identifySender
AssistantOpeners ==
    {"i understand", "i can help", "here's", "i'll", "let me", "i'd be happy",
     "certainly", "of course"}

UserOpeners ==
    {"can you", "please help", "how do i", "i need", "i want", "help me",
     "could you"}

\* the phrase the lowercased textContent starts with
TextStarts == {"certainly", "can you", "hello"}

\* textContent of a located element; every one passes the locator's filter
\* of every variant (30 characters and five words at least)
Texts ==
    { Phrase("a", 10),
      Phrase("b", 48),
      Phrase("a", 80),
      <<R("a", 80), R(" ", 1), R("a", 80), R(" ", 1), R("b", 80), R(" ", 1),
        R("b", 80), R(" ", 1), R("b", 80)>> }

TextLengths == {StrLen(t) : t \in Texts}

Turns ==
    [role : Roles, avatars : AvatarLists, textStart : TextStarts,
     hasCodeBlocks : BOOLEAN, hasLists : BOOLEAN, text : Texts]

\* ------------------------------------------------------------------------
\* identifySender
\* ------------------------------------------------------------------------
AvatarIsUser(a) ==
    Includes(a.alt, "user") \/ Includes(a.src, "user") \/ Includes(a.cls, "user")

AvatarIsAssistant(a) ==
    \/ Includes(a.alt, "chatgpt") \/ Includes(a.alt, "assistant")
    \/ Includes(a.alt, "gpt")
    \/ Includes(a.src, "assistant") \/ Includes(a.src, "chatgpt")
    \/ Includes(a.cls, "assistant")

\* the for loop over the avatars: the first avatar with an indicator decides
RECURSIVE AvatarSender(_)
AvatarSender(avatars) ==
    IF avatars = <<>> THEN "none"
    ELSE IF AvatarIsUser(Head(avatars)) THEN "You"
    ELSE IF AvatarIsAssistant(Head(avatars)) THEN "ChatGPT"
    ELSE AvatarSender(Tail(avatars))

Attributed(sender, reliable) == [sender |-> sender, reliable |-> reliable]

\* identifySender with the parity of the final fallback swapped
IdentifySenderOddFirst(messageElement, index, prevLength) ==
    LET currentLength == StrLen(messageElement.text)
        byAvatar == AvatarSender(messageElement.avatars)
    IN  IF messageElement.role # ""
        THEN Attributed(IF messageElement.role = "user" THEN "You" ELSE "ChatGPT",
                        TRUE)
        ELSE IF byAvatar # "none"
        THEN Attributed(byAvatar, FALSE)
        ELSE IF messageElement.textStart \in AssistantOpeners
        THEN Attributed("ChatGPT", FALSE)
        ELSE IF messageElement.textStart \in UserOpeners
        THEN Attributed("You", FALSE)
        ELSE IF /\ messageElement.hasCodeBlocks /\ messageElement.hasLists
                /\ currentLength > LongTextLen
        THEN Attributed("ChatGPT", FALSE)
        ELSE IF index > 0 /\ prevLength < ShortTurnLen /\ currentLength > LongTurnLen
        THEN Attributed("ChatGPT", FALSE)
        ELSE IF index > 0 /\ prevLength > LongTurnLen /\ currentLength < ShortTurnLen
        THEN Attributed("You", FALSE)
        ELSE Attributed(IF index % 2 = 1 THEN "You" ELSE "ChatGPT", FALSE)

\* identifySender with the avatar rule tried before the explicit role
IdentifySenderAvatarFirst(messageElement, index, prevLength) ==
    LET currentLength == StrLen(messageElement.text)
        byAvatar == AvatarSender(messageElement.avatars)
    IN  IF byAvatar # "none"
        THEN Attributed(byAvatar, FALSE)
        ELSE IF messageElement.role # ""
        THEN Attributed(IF messageElement.role = "user" THEN "You" ELSE "ChatGPT",
                        TRUE)
        ELSE IF messageElement.textStart \in AssistantOpeners
        THEN Attributed("ChatGPT", FALSE)
        ELSE IF messageElement.textStart \in UserOpeners
        THEN Attributed("You", FALSE)
        ELSE IF /\ messageElement.hasCodeBlocks /\ messageElement.hasLists
                /\ currentLength > LongTextLen
        THEN Attributed("ChatGPT", FALSE)
        ELSE IF index > 0 /\ prevLength < ShortTurnLen /\ currentLength > LongTurnLen
        THEN Attributed("ChatGPT", FALSE)
        ELSE IF index > 0 /\ prevLength > LongTurnLen /\ currentLength < ShortTurnLen
        THEN Attributed("You", FALSE)
        ELSE Attributed(IF index % 2 = 0 THEN "You" ELSE "ChatGPT", FALSE)

\* identifySender(messageElement, index, allMessages); prevLength is
\* allMessages[index - 1].textContent.length (read only when index > 0)
IdentifySender(messageElement, index, prevLength) ==
    LET currentLength == StrLen(messageElement.text)
        hasLongText == currentLength > LongTextLen
        byAvatar == AvatarSender(messageElement.avatars)
    IN  IF messageElement.role # ""
        THEN Attributed(IF messageElement.role = "user" THEN "You" ELSE "ChatGPT",
                        TRUE)
        ELSE IF byAvatar # "none"
        THEN Attributed(byAvatar, FALSE)
        ELSE IF messageElement.textStart \in AssistantOpeners
        THEN Attributed("ChatGPT", FALSE)
        ELSE IF messageElement.textStart \in UserOpeners
        THEN Attributed("You", FALSE)
        ELSE IF messageElement.hasCodeBlocks /\ hasLongText /\ messageElement.hasLists
        THEN Attributed("ChatGPT", FALSE)
        ELSE IF index > 0 /\ prevLength < ShortTurnLen /\ currentLength > LongTurnLen
        THEN Attributed("ChatGPT", FALSE)
        ELSE IF index > 0 /\ prevLength > LongTurnLen /\ currentLength < ShortTurnLen
        THEN Attributed("You", FALSE)
        ELSE Attributed(IF index % 2 = 0 THEN "You" ELSE "ChatGPT", FALSE)

IdentifySenderPlain(messageElement, index, prevLength) ==
    IdentifySender(messageElement, index, prevLength).sender

\* ------------------------------------------------------------------------
\* Main export logic: state
\* ------------------------------------------------------------------------
VARIABLES
    variant,            \* which exporter runs
    pc,                 \* position of the run in the main export logic
    nMessages,          \* messages.length, the number of located turns
    index,              \* loop variable of the message processing loop
    prevLength,         \* messages[index - 1].textContent.length while the
                        \* processing loop runs
    cur,                \* locals of the iteration between identifySender and
                        \* the end of processMessageContent (text: the
                        \* textContent the HTML exporter measures)
    processedMessages,
    seenContent,
    i,                  \* loop variable of the sender sequence correction
    writes,             \* per record: assignments to sender made by the pass
    last,               \* the iteration just finished: its content and fate
    signals,            \* user-visible "nothing found" signals emitted
    work,               \* kinds of work done after the locator returned
    output,             \* the generated message blocks
    download            \* the payload handed to the browser as a download

pipelineVars ==
    <<variant, pc, nMessages, index, prevLength, cur, processedMessages,
      seenContent, i, writes, last, signals, work, output, download>>

\* findMessages
VARIABLES
    parent,                 \* the document: parent of each element (0: none)
    lpc,                    \* position inside findMessages
    selector,               \* position in the selectors array (1-based)
    queried,                \* results of the queries run so far, in order
    fallbackUsed,           \* the container fallback branch was entered
    messages,               \* let messages
    validMessages,
    filtered,               \* the last element the filter callback judged
    pos,                    \* position of the filter / forEach callbacks
    consolidatedMessages,
    usedElements

locateVars ==
    <<parent, lpc, selector, queried, fallbackUsed, messages, validMessages,
      filtered, pos, consolidatedMessages, usedElements>>

\* identifySender applied to one element
VARIABLES
    sElement,       \* messageElement
    sIndex,         \* index
    sPrevLength,    \* allMessages[index - 1].textContent.length
    sResult         \* the value returned (NoResult before the call)

senderVars == <<sElement, sIndex, sPrevLength, sResult>>

\* processMessageContent and imageToBase64 over the located turns
VARIABLES
    eTurns,         \* messages.length of the run
    eTurn,          \* index of the turn being processed (0-based)
    ePc,            \* position of the run between two awaits
    dom,            \* the children of the turn element (original) and of its
                    \* clone, in document order
    images,         \* const images: the static node list of the image loop,
                    \* resp. Array.from(element.children) of processElement
    ePos,           \* position in images (1-based)
    calls,          \* the imageToBase64 calls that are awaited or still have
                    \* a load or a timer pending
    loads,          \* per original node of the turn: loads started for it
    started,        \* turns whose attribution has started
    thrown          \* an exception has left drawImageToBase64

embedVars ==
    <<eTurns, eTurn, ePc, dom, images, ePos, calls, loads, started, thrown>>

\* convertElementToMarkdown and cleanMarkdown applied to one element
VARIABLES
    cPc,            \* "element", "markdown" or "content": what has been computed
    cElement,       \* the element handed to convertElementToMarkdown
    cMarkdown,      \* let markdown = convertElementToMarkdown(contentElement)
    cContent,       \* cleanMarkdown(markdown)
    cAgain          \* cleanMarkdown applied to the content once more

convertVars == <<cPc, cElement, cMarkdown, cContent, cAgain>>

\* the control flow of a run of the main export logic, from findMessages to
\* the download, with the embed call it is waiting for
VARIABLES
    rMessages,      \* messages: for each located turn the images it holds
    rPc,            \* position of the run
    rIndex,         \* index of the message processing loop
    rImage,         \* position in the images of the turn
    rCall,          \* the imageToBase64 call the run awaits
    rProcessed,     \* processedMessages.length
    rI,             \* i of the correction pass
    rVisited,       \* the values of i the correction pass has run its body for
    rTimedOut       \* some call was resolved by its timer

runVars ==
    <<rMessages, rPc, rIndex, rImage, rCall, rProcessed, rI, rVisited,
      rTimedOut>>

\* two runs of the Markdown exporter with images over the same located
\* turns, side by side
VARIABLES
    tTurns,         \* the located turns: what identifySender returned for
                    \* each, its text and whether it holds an image
    tPc,            \* "loop", "correct" or "done"
    tIndex,         \* index of the message processing loop
    tRuns,          \* processedMessages and seenContent of the two runs
    tI              \* i of the correction pass

twinVars == <<tTurns, tPc, tIndex, tRuns, tI>>

vars ==
    <<pipelineVars, locateVars, senderVars, embedVars, convertVars, runVars,
      twinVars>>

\* what each part of the program leaves alone
exceptPipeline ==
    <<locateVars, senderVars, embedVars, convertVars, runVars, twinVars>>

exceptLocate ==
    <<pipelineVars, senderVars, embedVars, convertVars, runVars, twinVars>>

exceptSender ==
    <<pipelineVars, locateVars, embedVars, convertVars, runVars, twinVars>>

exceptEmbed ==
    <<pipelineVars, locateVars, senderVars, convertVars, runVars, twinVars>>

exceptConvert ==
    <<pipelineVars, locateVars, senderVars, embedVars, runVars, twinVars>>

exceptRun ==
    <<pipelineVars, locateVars, senderVars, embedVars, convertVars, twinVars>>

exceptTwin ==
    <<pipelineVars, locateVars, senderVars, embedVars, convertVars, runVars>>

NoLast == [index |-> -1, content |-> <<>>, fate |-> "none"]

NoCur == [sender |-> "none", reliable |-> FALSE, text |-> <<>>]

\* converted content of a turn: the result of processMessageContent (the
\* cleaned Markdown, or innerHTML in the HTML exporter); cleanMarkdown ends
\* with trim(), so no content starts or ends with whitespace
Contents ==
    { <<R("a", 3)>>,
      <<R("b", 40)>>,
      <<R("a", 100), R("b", 500)>>,
      <<R("a", 100), R("c", 20)>>,
      <<R("c", 1700)>>,
      <<R("a", 99), R("\n", 1), R("b", 700)>>,
      <<R("a", 99)>> }

\* innerHTML of the processed clone in the HTML exporter, of which the run
\* reads the length only; it is empty when the content element of the
\* clone has no child left
HtmlContents ==
    { <<>>, <<R("b", 40)>>, <<R("a", 100), R("b", 500)>>, <<R("c", 1700)>> }

ContentsOf(v) == IF v = "html" THEN HtmlContents ELSE Contents

MinLength(v) == IF v = "markdown" THEN 30 ELSE 5

\* the hash taken of the whole content instead of its first 100 characters
ContentHashWhole(content) == Trim(CollapseWhitespace(content))

\* const contentHash = content.substring(0, 100).replace(/\s+/g, ' ').trim()
ContentHash(content) == Trim(CollapseWhitespace(Substring0(content, HashLen)))

\* the string the length test and the hash are taken of
Measured(v, text, content) == IF v = "html" THEN Trim(text) ELSE content

\* if (!content || content.trim().length < 5)
TooShort(v, text, content) ==
    LET m == Measured(v, text, content)
    IN  m = <<>> \/ StrLen(Trim(m)) < MinLength(v)

Message(sender, reliable, content, originalIndex) ==
    [sender |-> sender, reliable |-> reliable, content |-> content,
     originalIndex |-> originalIndex]

\* unshift instead of push
PushFront(list, message) == <<message>> \o list

\* processedMessages.push({...})
Push(list, message) == Append(list, message)

\* ------------------------------------------------------------------------
\* Sender sequence correction: the body of the loop for one value of i
\* (i is the source's 0-based index; the records are list[i] and list[i + 1])
\* ------------------------------------------------------------------------
SkipsReliable(v) == v = "markdownImages"

\* the skip that tests current.reliable only
SkippedCurrentOnly(v, current, previous) ==
    SkipsReliable(v) /\ current.reliable

Skipped(v, current, previous) ==
    SkipsReliable(v) /\ (current.reliable \/ previous.reliable)

Flip(sender) == IF sender = "You" THEN "ChatGPT" ELSE "You"

CorrectionBranch(v, list, k) ==
    LET current == list[k + 1]
        previous == list[k]
        currentLength == StrLen(current.content)
        previousLength == StrLen(previous.content)
    IN  IF Skipped(v, current, previous) THEN "skip"
        ELSE IF current.sender # previous.sender THEN "none"
        ELSE IF currentLength > previousLength * 2 /\ currentLength > CorrectionFloor
        THEN "current"
        ELSE IF previousLength > currentLength * 2 /\ previousLength > CorrectionFloor
        THEN "previous"
        ELSE "flip"

CorrectPair(v, list, k) ==
    LET branch == CorrectionBranch(v, list, k)
        current == list[k + 1]
    IN  CASE branch = "current" ->
                [list EXCEPT ![k + 1].sender = "ChatGPT"]
          [] branch = "previous" ->
                [list EXCEPT ![k].sender = "ChatGPT", ![k + 1].sender = "You"]
          [] branch = "flip" ->
                [list EXCEPT ![k + 1].sender = Flip(current.sender)]
          [] OTHER -> list

\* the positions of the records whose sender the step assigns
Assigned(v, list, k) ==
    LET branch == CorrectionBranch(v, list, k)
    IN  CASE branch = "previous" -> {k, k + 1}
          [] branch \in {"current", "flip"} -> {k + 1}
          [] OTHER -> {}

\* ------------------------------------------------------------------------
\* Main export logic: actions
\* ------------------------------------------------------------------------
Zeros(n) == [k \in 1..n |-> 0]

PipelineInit ==
    /\ variant \in Variants
    /\ pc = "start"
    /\ nMessages = 0
    /\ index = 0
    /\ prevLength = 0
    /\ cur = NoCur
    /\ processedMessages = <<>>
    /\ seenContent = {}
    /\ i = 0
    /\ writes = <<>>
    /\ last = NoLast
    /\ signals = <<>>
    /\ work = {}
    /\ output = <<>>
    /\ download = "none"

\* the alert without the return that follows it
EmptyOutcomeNoReturn(v) ==
    IF v = "html"
    THEN [signals |-> <<"placeholder">>, pc |-> "download",
          output |-> <<"No messages found.">>]
    ELSE [signals |-> <<"alert">>, pc |-> "correct", output |-> <<>>]

\* what the run does when findMessages() returned no element
EmptyOutcome(v) ==
    IF v = "html"
    THEN [signals |-> <<"placeholder">>, pc |-> "download",
          output |-> <<"No messages found.">>]
    ELSE [signals |-> <<"alert">>, pc |-> "done", output |-> <<>>]

\* const messages = findMessages(); if (messages.length === 0) {...}
NoMessagesFound ==
    /\ pc = "start"
    /\ LET o == EmptyOutcome(variant)
       IN  /\ signals' = signals \o o.signals
           /\ pc' = o.pc
           /\ output' = o.output
    /\ UNCHANGED <<variant, nMessages, index, prevLength, cur, processedMessages,
                   seenContent, i, writes, last, work, download>>
    /\ UNCHANGED exceptPipeline

MessagesFound ==
    /\ pc = "start"
    /\ \E n \in 1..MaxTurns : nMessages' = n
    /\ pc' = "identify"
    /\ UNCHANGED <<variant, index, prevLength, cur, processedMessages,
                   seenContent, i, writes, last, signals, work, output, download>>
    /\ UNCHANGED exceptPipeline

\* the locals after
\* const { sender, reliable } = identifySender(messageElement, index, messages)
\* (the plain Markdown and the HTML exporter have no reliable flag: there
\* the field only records whether the explicit role decided the sender)
Identified(v, messageElement, idx, prevLen) ==
    LET a == IdentifySender(messageElement, idx, prevLen)
    IN  [sender |-> IF v = "markdownImages" THEN a.sender
                    ELSE IdentifySenderPlain(messageElement, idx, prevLen),
         reliable |-> a.reliable,
         text |-> IF v = "html" THEN messageElement.text ELSE <<>>]

Identify ==
    /\ pc = "identify"
    /\ \E o \in { <<Identified(variant, messageElement, index, prevLength),
                     StrLen(messageElement.text)>> : messageElement \in Turns } :
          /\ cur' = o[1]
          /\ prevLength' = o[2]
    /\ work' = work \cup {"attribution"}
    /\ pc' = "convert"
    /\ last' = NoLast
    /\ UNCHANGED <<variant, nMessages, index, processedMessages, seenContent, i,
                   writes, signals, output, download>>
    /\ UNCHANGED exceptPipeline

\* const content = await processMessageContent(messageElement), and the
\* rest of the iteration
Convert ==
    /\ pc = "convert"
    /\ \E content \in ContentsOf(variant) :
          LET contentHash == ContentHash(Measured(variant, cur.text, content))
          IN  IF TooShort(variant, cur.text, content)
              THEN /\ last' = [index |-> index, content |-> content,
                               fate |-> "short"]
                   /\ UNCHANGED <<processedMessages, seenContent>>
              ELSE IF contentHash \in seenContent
              THEN /\ last' = [index |-> index, content |-> content,
                               fate |-> "duplicate"]
                   /\ UNCHANGED <<processedMessages, seenContent>>
              ELSE /\ last' = [index |-> index, content |-> content,
                               fate |-> "pushed"]
                   /\ seenContent' = seenContent \cup {contentHash}
                   /\ processedMessages' =
                         Push(processedMessages,
                              Message(cur.sender, cur.reliable, content, index))
    /\ work' = work \cup {"conversion"}
    /\ cur' = NoCur
    /\ index' = index + 1
    /\ IF index + 1 < nMessages
       THEN /\ pc' = "identify"
            /\ UNCHANGED <<i, writes, prevLength>>
       ELSE /\ pc' = "correct"
            /\ i' = 1
            /\ writes' = Zeros(Len(processedMessages'))
            /\ prevLength' = 0
    /\ UNCHANGED <<variant, nMessages, signals, output, download>>
    /\ UNCHANGED exceptPipeline

\* one iteration of for (let i = 1; i < processedMessages.length; i++)
Correct ==
    /\ pc = "correct"
    /\ i < Len(processedMessages)
    /\ processedMessages' = CorrectPair(variant, processedMessages, i)
    /\ writes' = [k \in 1..Len(writes) |->
                    IF k \in Assigned(variant, processedMessages, i)
                    THEN writes[k] + 1 ELSE writes[k]]
    /\ i' = i + 1
    /\ last' = NoLast
    /\ UNCHANGED <<variant, pc, nMessages, index, prevLength, cur, seenContent,
                   signals, work, output, download>>
    /\ UNCHANGED exceptPipeline

\* processedMessages.forEach(...): the message blocks of the document
Generate ==
    /\ pc = "correct"
    /\ ~(i < Len(processedMessages))
    /\ output' = [k \in 1..Len(processedMessages) |->
                    [sender |-> processedMessages[k].sender,
                     content |-> processedMessages[k].content,
                     originalIndex |-> processedMessages[k].originalIndex]]
    /\ pc' = "download"
    /\ last' = NoLast
    /\ UNCHANGED <<variant, nMessages, index, prevLength, cur, processedMessages,
                   seenContent, i, writes, signals, work, download>>
    /\ UNCHANGED exceptPipeline

\* new Blob(...), a.download = ..., a.click()
Download ==
    /\ pc = "download"
    /\ download' = IF variant = "html" THEN "html" ELSE "markdown"
    /\ pc' = "done"
    /\ UNCHANGED <<variant, nMessages, index, prevLength, cur, processedMessages,
                   seenContent, i, writes, last, signals, work, output>>
    /\ UNCHANGED exceptPipeline

PipelineNext ==
    \/ NoMessagesFound
    \/ MessagesFound
    \/ Identify
    \/ Convert
    \/ Correct
    \/ Generate
    \/ Download

\* ------------------------------------------------------------------------
\* findMessages: the document, the selector cascade, the filter and the
\* removal of nested matches
\* ------------------------------------------------------------------------
\* elements are numbered in document order
Nodes == 1..MaxNodes

NumSelectors == 5

RECURSIVE Ancestors(_, _)
Ancestors(p, n) == IF p[n] = 0 THEN {} ELSE {p[n]} \cup Ancestors(p, p[n])

\* Node.prototype.contains
Contains(p, a, b) == a = b \/ a \in Ancestors(p, b)

\* parent functions whose numbering is the document (pre-)order
Documents ==
    { p \in [Nodes -> 0..MaxNodes] :
        \A n \in Nodes :
            /\ p[n] < n
            /\ n > 1 => p[n] \in {0, n - 1} \cup Ancestors(p, n - 1) }

\* a NodeList: the elements of S in document order
RECURSIVE NodeList(_)
NodeList(S) ==
    IF S = {} THEN <<>>
    ELSE LET m == CHOOSE x \in S : \A y \in S : x <= y
         IN  <<m>> \o NodeList(S \ {m})

NoneNested(p, S) == \A a \in S, b \in S : a # b => ~Contains(p, a, b)

\* What querySelectorAll can return for a selector of the list: any set of
\* elements, except that the last selector ("top-level groups only")
\* matches no element inside another match.
QueryResults(p, sel) ==
    { S \in SUBSET Nodes : sel = NumSelectors => NoneNested(p, S) }

\* conversationContainer.querySelectorAll(':scope > div, :scope > article'):
\* children of one element
ContainerChildren(p) ==
    { S \in SUBSET Nodes : \A a \in S, b \in S : p[a] = p[b] }

\* what the filter callback reads of an element
FilterMinLength(v) == IF v = "markdown" THEN 30 ELSE 5

MinWords == 5

Candidates ==
    [textLength : {4, 5, 29, 30, MaxTextLen, MaxTextLen + 1},
     words : {MinWords - 1, MinWords},
     hasInput : BOOLEAN, typing : BOOLEAN, loading : BOOLEAN]

\* the filter callback of validMessages
Keeps(v, c) ==
    /\ ~(c.textLength < FilterMinLength(v))
    /\ ~(c.textLength > MaxTextLen)
    /\ ~c.hasInput
    /\ ~(c.typing \/ c.loading)
    /\ v = "markdown" => ~(c.words < MinWords)

\* the loop without its break
LoopNeverBreaks(result) == FALSE

\* if (messages.length > 0) { ...; break; }
LoopBreaks(result) == Len(result) > 0

\* validMessages.some(other => other !== msg && other.contains(msg)
\*                             && !usedElements.has(other))
IsNested(p, valid, used, msg) ==
    \E k \in 1..Len(valid) :
        /\ valid[k] # msg
        /\ Contains(p, valid[k], msg)
        /\ valid[k] \notin used

NoFiltered == [msg |-> 0, kept |-> FALSE]

LocateInit ==
    /\ parent \in Documents
    /\ lpc = "query"
    /\ selector = 1
    /\ queried = <<>>
    /\ fallbackUsed = FALSE
    /\ messages = <<>>
    /\ validMessages = <<>>
    /\ filtered = NoFiltered
    /\ pos = 1
    /\ consolidatedMessages = <<>>
    /\ usedElements = {}

\* one iteration of for (const selector of selectors)
QuerySelector ==
    /\ lpc = "query"
    /\ \E S \in QueryResults(parent, selector) :
          /\ messages' = NodeList(S)
          /\ queried' = Append(queried, NodeList(S))
    /\ IF LoopBreaks(messages') \/ selector = NumSelectors
       THEN lpc' = "queried" /\ UNCHANGED selector
       ELSE selector' = selector + 1 /\ UNCHANGED lpc
    /\ UNCHANGED <<parent, fallbackUsed, validMessages, filtered, pos,
                   consolidatedMessages, usedElements>>
    /\ UNCHANGED exceptLocate

AfterCandidates(list) == IF list = <<>> THEN "done" ELSE "filter"

\* if (messages.length === 0) { conversationContainer ... }
Fallback ==
    /\ lpc = "queried"
    /\ messages = <<>>
    /\ fallbackUsed' = TRUE
    /\ \/ UNCHANGED messages
       \/ \E S \in ContainerChildren(parent) : messages' = NodeList(S)
    /\ lpc' = AfterCandidates(messages')
    /\ UNCHANGED <<parent, selector, queried, validMessages, filtered, pos,
                   consolidatedMessages, usedElements>>
    /\ UNCHANGED exceptLocate

NoFallback ==
    /\ lpc = "queried"
    /\ messages # <<>>
    /\ lpc' = "filter"
    /\ UNCHANGED <<parent, selector, queried, fallbackUsed, messages,
                   validMessages, filtered, pos, consolidatedMessages,
                   usedElements>>
    /\ UNCHANGED exceptLocate

\* one call of the callback of Array.from(messages).filter(...)
Filter ==
    /\ lpc = "filter"
    /\ \E c \in Candidates :
          /\ filtered' = [msg |-> messages[pos], kept |-> Keeps(variant, c)]
                            @@ c
          /\ validMessages' = IF Keeps(variant, c)
                              THEN Append(validMessages, messages[pos])
                              ELSE validMessages
    /\ IF pos < Len(messages)
       THEN pos' = pos + 1 /\ UNCHANGED lpc
       ELSE /\ pos' = 1
            /\ lpc' = IF validMessages' = <<>> THEN "done" ELSE "consolidate"
    /\ UNCHANGED <<parent, selector, queried, fallbackUsed, messages,
                   consolidatedMessages, usedElements>>
    /\ UNCHANGED exceptLocate

\* one call of the callback of validMessages.forEach(...)
Consolidate ==
    /\ lpc = "consolidate"
    /\ LET msg == validMessages[pos]
       IN  IF msg \notin usedElements
              /\ ~IsNested(parent, validMessages, usedElements, msg)
           THEN /\ consolidatedMessages' = Append(consolidatedMessages, msg)
                /\ usedElements' = usedElements \cup {msg}
           ELSE UNCHANGED <<consolidatedMessages, usedElements>>
    /\ IF pos < Len(validMessages)
       THEN pos' = pos + 1 /\ UNCHANGED lpc
       ELSE pos' = 1 /\ lpc' = "done"
    /\ filtered' = NoFiltered
    /\ UNCHANGED <<parent, selector, queried, fallbackUsed, messages,
                   validMessages>>
    /\ UNCHANGED exceptLocate

LocateNext ==
    \/ QuerySelector
    \/ Fallback
    \/ NoFallback
    \/ Filter
    \/ Consolidate

\* ------------------------------------------------------------------------
\* identifySender applied to one element
\* ------------------------------------------------------------------------
NoElement ==
    [role |-> "", avatars |-> <<>>, textStart |-> "", hasCodeBlocks |-> FALSE,
     hasLists |-> FALSE, text |-> <<>>]

NoResult == Attributed("none", FALSE)

SenderInit ==
    /\ sElement \in Turns
    /\ sIndex \in 0..(MaxTurns - 1)
    /\ sPrevLength \in IF sIndex = 0 THEN {0} ELSE TextLengths
    /\ sResult = NoResult

SenderIdle ==
    /\ sElement = NoElement
    /\ sIndex = 0
    /\ sPrevLength = 0
    /\ sResult = NoResult

SenderIdentify ==
    /\ sResult = NoResult
    /\ sResult' = IdentifySender(sElement, sIndex, sPrevLength)
    /\ UNCHANGED <<sElement, sIndex, sPrevLength>>
    /\ UNCHANGED exceptSender

\* ------------------------------------------------------------------------
\* Image embedding: processMessageContent, processElement, imageToBase64
\* ------------------------------------------------------------------------
\* an image source: its scheme and the keyword its path contains
Src(scheme, path) == [scheme |-> scheme, path |-> path]

NoSrc == Src("", "none")

\* a child node of a turn element.  A button carries the src of the image
\* it wraps (NoSrc: it wraps none).  id names the node inside its tree;
\* base64 is the data URL written to the node, styled its style/class write.
Node(id, tag, src, complete) ==
    [id |-> id, tag |-> tag, src |-> src, complete |-> complete,
     base64 |-> "", styled |-> FALSE]

NodeKinds ==
    { Node(0, "img", Src("https", "photo"), FALSE),
      Node(0, "img", Src("https", "photo"), TRUE),
      Node(0, "img", Src("blob", "photo"), FALSE),
      Node(0, "img", Src("https", "favicon"), FALSE),
      Node(0, "img", Src("https", "avatar"), TRUE),
      Node(0, "button", Src("https", "photo"), FALSE),
      Node(0, "button", NoSrc, FALSE),
      Node(0, "svg", NoSrc, FALSE),
      Node(0, "p", NoSrc, FALSE) }

\* the child lists of a turn element, ids in document order
TurnDoms ==
    { [k \in 1..Len(q) |-> [q[k] EXCEPT !.id = k]] :
        q \in SeqsUpTo(NodeKinds, MaxChildren) }

\* the check without its second alternative
IsUiSrcFaviconOnly(src) == Includes(src.path, "favicon")

\* src.includes('favicon') || src.includes('avatar')
IsUiSrc(src) == Includes(src.path, "favicon") \/ Includes(src.path, "avatar")

\* element.cloneNode(true) with an alias of the element as result
CloneNodeAlias(element) == element

\* const clone = element.cloneNode(true): the tree the conversion works on
CloneNode(element) == "clone"

RECURSIVE PrepareClone(_)
\* the button pass and the removal of svg elements on the working tree
PrepareClone(nodes) ==
    IF nodes = <<>> THEN <<>>
    ELSE LET n == Head(nodes)
             rest == PrepareClone(Tail(nodes))
         IN  IF n.tag = "button" /\ n.src # NoSrc
             THEN <<[n EXCEPT !.tag = "img"]>> \o rest
             ELSE IF n.tag \in {"button", "svg"} THEN rest
             ELSE <<n>> \o rest

RECURSIVE IdsOf(_)
IdsOf(nodes) ==
    IF nodes = <<>> THEN <<>> ELSE <<Head(nodes).id>> \o IdsOf(Tail(nodes))

IsImg(n) == n.tag = "img"

\* querySelectorAll('img') on the working tree
ImagesOf(nodes) == IdsOf(SelectSeq(nodes, IsImg))

\* element.querySelectorAll('img') on the original: positions of the images,
\* those wrapped in a button included
OriginalImages(nodes) ==
    { k \in 1..Len(nodes) :
        \/ nodes[k].tag = "img"
        \/ nodes[k].tag = "button" /\ nodes[k].src # NoSrc }

\* srcToOriginal.get(src): the first original image with this src (0: none)
SrcToOriginal(nodes, src) ==
    LET same == {k \in OriginalImages(nodes) : nodes[k].src = src}
    IN  IF same = {} THEN 0
        ELSE CHOOSE k \in same : \A j \in same : k <= j

\* the node of a tree with a given id (its position; 0: removed)
Position(nodes, id) ==
    LET at == {k \in 1..Len(nodes) : nodes[k].id = id}
    IN  IF at = {} THEN 0 ELSE CHOOSE k \in at : TRUE

\* img.remove()
RemoveNode(nodes, id) == SelectSeq(nodes, LAMBDA n : n.id # id)

\* img.setAttribute('data-base64', base64) / img.src = base64
SetBase64(nodes, id, base64) ==
    [k \in 1..Len(nodes) |->
        IF nodes[k].id = id THEN [nodes[k] EXCEPT !.base64 = base64]
        ELSE nodes[k]]

\* element.style.cssText = ...; element.removeAttribute('class')
SetStyled(nodes, id) ==
    [k \in 1..Len(nodes) |->
        IF nodes[k].id = id THEN [nodes[k] EXCEPT !.styled = TRUE]
        ELSE nodes[k]]

\* what drawing an image to the canvas can do
RawOutcomes == {"drawn", "zeroArea", "securityError"}

\* drawImageToBase64 without its try/catch
DrawImageUncaught(raw) ==
    IF raw = "drawn" THEN "payload"
    ELSE IF raw = "zeroArea" THEN "null"
    ELSE "throw"

\* drawImageToBase64: the data URL, or null for a zero-area image and for
\* an exception of the canvas
DrawImageToBase64(raw) == IF raw = "drawn" THEN "payload" ELSE "null"

\* an imageToBase64 call: the original node, its load and timer, the
\* milliseconds its timer has run (counted up to the timeout), the value its
\* promise resolved with ("unset": unresolved) and whether the awaiting code
\* has taken that value
Call(node, load, timer, result, cause) ==
    [node |-> node, load |-> load, timer |-> timer, elapsed |-> 0,
     result |-> result, cause |-> cause, consumed |-> FALSE]

\* resolve(value) that replaces an earlier value
ResolveOverwrites(call, value, cause) ==
    [call EXCEPT !.result = value, !.cause = cause]

\* resolve(value): only the first resolution of a promise counts
Resolve(call, value, cause) ==
    IF call.result = "unset"
    THEN [call EXCEPT !.result = value, !.cause = cause]
    ELSE call

\* catch (e) { ...; return null; } of imageToBase64
Caught(value) == IF value = "throw" THEN "null" ELSE value

\* imageToBase64 without the setTimeout of its asynchronous path
ImageToBase64NoTimer(node, img, raw) ==
    IF IsUiSrc(img.src)
    THEN Call(node, "none", "none", "null", "icon")
    ELSE IF img.src.scheme = "blob" \/ img.complete
    THEN Call(node, "none", "none", Caught(DrawImageToBase64(raw)), raw)
    ELSE Call(node, "pending", "none", "unset", "none")

\* imageToBase64 up to its return
ImageToBase64(node, img, raw) ==
    IF IsUiSrc(img.src)
    THEN Call(node, "none", "none", "null", "icon")
    ELSE IF img.src.scheme = "blob" \/ img.complete
    THEN Call(node, "none", "none", Caught(DrawImageToBase64(raw)), raw)
    ELSE Call(node, "pending", "pending", "unset", "none")

\* a call nothing can happen to any more
Quiescent(call) ==
    call.consumed /\ call.load # "pending" /\ call.timer # "pending"

\* a call whose value has been taken: which callback ended its load does
\* not matter any more
Settled(call) ==
    IF call.consumed /\ call.load \in {"loaded", "failed"}
    THEN [call EXCEPT !.load = "done"]
    ELSE call

\* the calls are kept as a list, those whose value has been taken first,
\* ordered by the state of their load and timer: which of them started
\* first does not matter
CallRank(call) ==
    (IF call.consumed THEN 0 ELSE 100)
    + (IF call.load = "pending" THEN 0 ELSE 10)
    + (IF call.timer # "pending" THEN 2
       ELSE IF call.elapsed < TimeoutMs THEN 0 ELSE 1)

RECURSIVE InsertCall(_, _)
InsertCall(cs, call) ==
    IF cs = <<>> THEN <<call>>
    ELSE IF CallRank(call) < CallRank(Head(cs)) THEN <<call>> \o cs
    ELSE <<Head(cs)>> \o InsertCall(Tail(cs), call)

RECURSIVE SortCalls(_)
SortCalls(cs) ==
    IF cs = <<>> THEN <<>>
    ELSE InsertCall(SortCalls(Tail(cs)), Head(cs))

Collect(cs) ==
    SortCalls([k \in 1..Len(SelectSeq(cs, LAMBDA c : ~Quiescent(c))) |->
                 Settled(SelectSeq(cs, LAMBDA c : ~Quiescent(c))[k])])

\* for...of with a callback that is not awaited
BlockedNever(cs) == FALSE

\* await: the code after it runs when the awaited promise has resolved
Blocked(cs) == \E k \in 1..Len(cs) : ~cs[k].consumed /\ cs[k].result = "unset"

\* the call whose value the awaiting code takes (0: none)
Awaited(cs) ==
    LET open == {k \in 1..Len(cs) : ~cs[k].consumed}
    IN  IF open = {} THEN 0 ELSE CHOOSE k \in open : \A j \in open : k >= j

NoDom == [original |-> <<>>, clone |-> <<>>]

EmbedInit ==
    /\ eTurns \in 1..MaxEmbedTurns
    /\ eTurn = 0
    /\ ePc = "turn"
    /\ dom = NoDom
    /\ images = <<>>
    /\ ePos = 1
    /\ calls = <<>>
    /\ loads = <<>>
    /\ started = 0
    /\ thrown = FALSE

EmbedIdle ==
    /\ eTurns = 0
    /\ eTurn = 0
    /\ ePc = "idle"
    /\ dom = NoDom
    /\ images = <<>>
    /\ ePos = 1
    /\ calls = <<>>
    /\ loads = <<>>
    /\ started = 0
    /\ thrown = FALSE

\* the working tree of processMessageContent
Working == CloneNode("original")

\* the calls after the awaiting code has taken the value of call k
Consume(cs, k) ==
    Collect([j \in 1..Len(cs) |->
                IF j # k THEN cs[j]
                ELSE [cs[j] EXCEPT
                        !.consumed = TRUE,
                        !.node = 0,
                        !.cause = "none",
                        !.result = IF @ = "unset" THEN "unset" ELSE "taken"]])

\* start of an iteration of the message processing loop: messages[index]
\* and identifySender
Attribute ==
    /\ ePc = "turn"
    /\ \E t \in TurnDoms : dom' = [original |-> t, clone |-> <<>>]
    /\ started' = started + 1
    /\ loads' = [k \in 1..Len(dom'.original) |-> 0]
    /\ ePc' = "clone"
    /\ UNCHANGED <<eTurns, eTurn, images, ePos, calls>>
    /\ UNCHANGED <<thrown, exceptEmbed>>

\* processMessageContent from cloneNode to the start of the image loop
CloneAndPrepare ==
    /\ ePc = "clone"
    /\ LET copied == [dom EXCEPT !.clone = dom.original]
       IN  dom' = [copied EXCEPT ![Working] = PrepareClone(copied[Working])]
    /\ images' = IF variant = "markdown" THEN <<>> ELSE ImagesOf(dom'[Working])
    /\ ePos' = 1
    /\ ePc' = IF variant = "markdown" THEN "convert" ELSE "images"
    /\ UNCHANGED <<eTurns, eTurn, calls, loads, started>>
    /\ UNCHANGED <<thrown, exceptEmbed>>

\* the call imageToBase64(original) made for position node of the original
\* tree, and the await that follows it
StartCall(node, returnTo) ==
    \E raw \in RawOutcomes :
        LET call == ImageToBase64(node, dom.original[node], raw)
        IN  /\ calls' = Collect(Append(calls, call))
            /\ loads' = IF call.load = "pending"
                        THEN [loads EXCEPT ![node] = @ + 1]
                        ELSE loads
            /\ thrown' = (thrown \/ (call.load = "none" /\ call.cause # "icon"
                                      /\ DrawImageToBase64(raw) = "throw"))
            /\ ePc' = returnTo

\* one iteration of for (const img of images) up to its await
NextImage ==
    /\ ePc = "images"
    /\ IF ePos > Len(images)
       THEN /\ IF variant = "html"
               THEN ePc' = "elements" /\ images' = IdsOf(dom[Working])
               ELSE ePc' = "convert" /\ UNCHANGED images
            /\ ePos' = 1
            /\ UNCHANGED <<dom, calls, loads, thrown>>
       ELSE LET img == dom[Working][Position(dom[Working], images[ePos])]
                originalImg == SrcToOriginal(dom.original, img.src)
            IN  IF IsUiSrc(img.src)
                THEN /\ dom' = IF variant = "html"
                               THEN [dom EXCEPT
                                       ![Working] = RemoveNode(@, img.id)]
                               ELSE dom
                     /\ ePos' = ePos + 1
                     /\ UNCHANGED <<ePc, images, calls, loads, thrown>>
                ELSE IF originalImg = 0
                THEN /\ dom' = IF variant = "html"
                               THEN [dom EXCEPT
                                       ![Working] = SetStyled(@, img.id)]
                               ELSE dom
                     /\ ePos' = ePos + 1
                     /\ UNCHANGED <<ePc, images, calls, loads, thrown>>
                ELSE /\ StartCall(originalImg, "awaitImage")
                     /\ UNCHANGED <<dom, images, ePos>>
    /\ UNCHANGED <<eTurns, eTurn, started>>
    /\ UNCHANGED exceptEmbed

\* processElement(children[i], originalChildren[i] || null) of the HTML
\* exporter up to its await.  The clone holds no button and no svg at this
\* point, so every child is an image or a content element.
ProcessElement ==
    /\ ePc = "elements"
    /\ IF ePos > Len(images)
       THEN /\ ePc' = "finish"
            /\ UNCHANGED <<dom, ePos, calls, loads, thrown>>
       ELSE LET element == dom[Working][Position(dom[Working], images[ePos])]
                hasOriginal == ePos <= Len(dom.original)
            IN  IF element.tag = "img" /\ element.base64 = ""
                   /\ IsUiSrc(element.src)
                THEN /\ dom' = [dom EXCEPT
                                  ![Working] = RemoveNode(@, element.id)]
                     /\ ePos' = ePos + 1
                     /\ UNCHANGED <<ePc, calls, loads, thrown>>
                ELSE IF element.tag = "img" /\ hasOriginal
                        /\ dom.original[ePos].tag = "img"
                THEN /\ StartCall(ePos, "awaitElement")
                     /\ UNCHANGED <<dom, ePos>>
                ELSE /\ dom' = [dom EXCEPT
                                  ![Working] = SetStyled(@, element.id)]
                     /\ ePos' = ePos + 1
                     /\ UNCHANGED <<ePc, calls, loads, thrown>>
    /\ UNCHANGED <<eTurns, eTurn, images, started>>
    /\ UNCHANGED exceptEmbed

\* the code after await imageToBase64(...): if (base64) { ... }
Resume ==
    /\ ePc \in {"awaitImage", "awaitElement"}
    /\ ~Blocked(calls)
    /\ LET k == Awaited(calls)
           call == calls[k]
           id == images[ePos]
           written == IF call.result = "payload"
                      THEN SetBase64(dom[Working], id, "payload")
                      ELSE dom[Working]
       IN  /\ calls' = Consume(calls, k)
           /\ dom' = [dom EXCEPT
                        ![Working] = IF variant = "html"
                                     THEN SetStyled(written, id)
                                     ELSE written]
           /\ ePos' = ePos + 1
           /\ ePc' = IF ePc = "awaitImage" THEN "images" ELSE "elements"
    /\ UNCHANGED <<eTurns, eTurn, images, loads, started>>
    /\ UNCHANGED <<thrown, exceptEmbed>>

\* convertElementToMarkdown and cleanMarkdown on the working tree
ConvertTurn ==
    /\ ePc = "convert"
    /\ ePc' = "finish"
    /\ UNCHANGED <<eTurns, eTurn, dom, images, ePos, calls, loads, started>>
    /\ UNCHANGED <<thrown, exceptEmbed>>

\* the rest of the iteration, and the loop condition
FinishTurn ==
    /\ ePc = "finish"
    /\ eTurn' = eTurn + 1
    /\ ePc' = IF eTurn + 1 < eTurns THEN "turn" ELSE "done"
    /\ UNCHANGED <<eTurns, dom, images, ePos, calls, loads,
                   started>>
    /\ UNCHANGED <<thrown, exceptEmbed>>

\* the calls after an event of call k ran its callback, which resolves the
\* promise with value unless an exception ended it before
Settle(cs, k, field, state, value, cause) ==
    Collect([j \in 1..Len(cs) |->
               IF j # k THEN cs[j]
               ELSE IF value = "throw" THEN [cs[j] EXCEPT ![field] = state]
               ELSE Resolve([cs[j] EXCEPT ![field] = state], value, cause)])

\* img.onload = () => resolve(drawImageToBase64(img))
LoadSucceeds ==
    /\ \E k \in 1..Len(calls), raw \in RawOutcomes :
          /\ calls[k].load = "pending"
          /\ calls' = Settle(calls, k, "load", "loaded",
                             DrawImageToBase64(raw), raw)
          /\ thrown' = (thrown \/ DrawImageToBase64(raw) = "throw")
    /\ UNCHANGED <<eTurns, eTurn, ePc, dom, images, ePos, loads, started>>
    /\ UNCHANGED exceptEmbed

\* img.onerror = () => { ...; resolve(null); }
LoadFails ==
    /\ \E k \in 1..Len(calls) :
          /\ calls[k].load = "pending"
          /\ calls' = Settle(calls, k, "load", "failed", "null", "loadError")
    /\ UNCHANGED <<eTurns, eTurn, ePc, dom, images, ePos, loads, started>>
    /\ UNCHANGED <<thrown, exceptEmbed>>

\* setTimeout(() => resolve(null), 5000): the callback runs
TimerFires ==
    /\ \E k \in 1..Len(calls) :
          /\ calls[k].timer = "pending"
          /\ calls[k].elapsed >= TimeoutMs
          /\ calls' = Settle(calls, k, "timer", "fired", "null", "timeout")
    /\ UNCHANGED <<eTurns, eTurn, ePc, dom, images, ePos, loads, started>>
    /\ UNCHANGED <<thrown, exceptEmbed>>

\* time passes while a timer is running
Tick ==
    /\ \E k \in 1..Len(calls) :
          calls[k].timer = "pending" /\ calls[k].elapsed < TimeoutMs
    /\ calls' = Collect([k \in 1..Len(calls) |->
                           IF calls[k].timer = "pending"
                              /\ calls[k].elapsed < TimeoutMs
                           THEN [calls[k] EXCEPT !.elapsed = @ + TickMs]
                           ELSE calls[k]])
    /\ UNCHANGED <<eTurns, eTurn, ePc, dom, images, ePos, loads, started>>
    /\ UNCHANGED <<thrown, exceptEmbed>>

EmbedNext ==
    \/ Attribute
    \/ CloneAndPrepare
    \/ NextImage
    \/ ProcessElement
    \/ Resume
    \/ ConvertTurn
    \/ FinishTurn
    \/ LoadSucceeds
    \/ LoadFails
    \/ TimerFires
    \/ Tick

\* ------------------------------------------------------------------------
\* The Markdown transducer: convertElementToMarkdown and cleanMarkdown
\* ------------------------------------------------------------------------
\* Markdown text is a sequence of tokens.  A token is one character, or a
\* piece of text that no pattern of the code splits ("https://", "lt;",
\* "javascript:"); "BACKTICK" is the backtick character and "FENCE" three
\* of them.
HorizontalSpace == {" ", "\t"}

JsWhitespace == {" ", "\t", "\n"}

RECURSIVE Flatten(_)
\* the concatenation of a sequence of texts
Flatten(texts) ==
    IF texts = <<>> THEN <<>> ELSE Head(texts) \o Flatten(Tail(texts))

RECURSIVE TrimStart(_)
TrimStart(s) ==
    IF s # <<>> /\ Head(s) \in JsWhitespace THEN TrimStart(Tail(s)) ELSE s

RECURSIVE TrimEnd(_)
TrimEnd(s) ==
    IF s # <<>> /\ s[Len(s)] \in JsWhitespace
    THEN TrimEnd(SubSeq(s, 1, Len(s) - 1))
    ELSE s

\* String.prototype.trim
TrimText(s) == TrimEnd(TrimStart(s))

\* s.startsWith(p) for a sequence of tokens p
StartsWith(s, p) == Len(s) >= Len(p) /\ SubSeq(s, 1, Len(p)) = p

RECURSIVE ReplaceAll(_, _, _)
\* s.replace(/p/g, r) for a literal p
ReplaceAll(s, p, r) ==
    IF s = <<>> THEN <<>>
    ELSE IF StartsWith(s, p)
    THEN r \o ReplaceAll(SubSeq(s, Len(p) + 1, Len(s)), p, r)
    ELSE <<Head(s)>> \o ReplaceAll(Tail(s), p, r)

RECURSIVE SkipNewlines(_)
SkipNewlines(s) ==
    IF s # <<>> /\ Head(s) = "\n" THEN SkipNewlines(Tail(s)) ELSE s

RECURSIVE NewlinesToSpace(_)
\* s.replace(/\n+/g, ' ')
NewlinesToSpace(s) ==
    IF s = <<>> THEN <<>>
    ELSE IF Head(s) = "\n" THEN <<" ">> \o NewlinesToSpace(SkipNewlines(s))
    ELSE <<Head(s)>> \o NewlinesToSpace(Tail(s))

\* s.replace(/\n{3,}/g, '\n\n')
RECURSIVE CollapseNewlines(_)
CollapseNewlines(s) ==
    IF s = <<>> THEN <<>>
    ELSE IF Head(s) = "\n"
    THEN LET rest == SkipNewlines(s)
             run == Len(s) - Len(rest)
         IN  (IF run >= 3 THEN <<"\n", "\n">> ELSE SubSeq(s, 1, run))
                \o CollapseNewlines(rest)
    ELSE <<Head(s)>> \o CollapseNewlines(Tail(s))

RECURSIVE Backticks(_)
\* the number of backticks a text starts with
Backticks(s) ==
    IF s = <<>> THEN 0
    ELSE IF Head(s) = "FENCE" THEN 3 + Backticks(Tail(s))
    ELSE IF Head(s) = "BACKTICK" THEN 1 + Backticks(Tail(s))
    ELSE 0

RECURSIVE SkipHorizontal(_)
SkipHorizontal(s) ==
    IF s # <<>> /\ Head(s) \in HorizontalSpace THEN SkipHorizontal(Tail(s))
    ELSE s

RECURSIVE StripLineStarts(_, _)
\* s.replace(/^[ \t]+(?!FENCE)/gm, '') with FENCE three backticks: at the
\* start of a line the longest
\* run of blanks and tabs that is not followed by three backticks is
\* removed; when the whole run is followed by three backticks the regular
\* expression backtracks and matches the run without its last character
StripLineStarts(s, atLineStart) ==
    IF s = <<>> THEN <<>>
    ELSE IF atLineStart /\ Head(s) \in HorizontalSpace
    THEN LET rest == SkipHorizontal(s)
             run == Len(s) - Len(rest)
         IN  IF Backticks(rest) >= 3
             THEN <<s[run]>> \o StripLineStarts(rest, FALSE)
             ELSE StripLineStarts(rest, FALSE)
    ELSE <<Head(s)>> \o StripLineStarts(Tail(s), Head(s) = "\n")

\* cleanMarkdown
CleanMarkdown(text) ==
    LET newlines == CollapseNewlines(text)
        lt == ReplaceAll(newlines, <<"&", "lt;">>, <<"<">>)
        gt == ReplaceAll(lt, <<"&", "gt;">>, <<">">>)
        amp == ReplaceAll(gt, <<"&", "amp;">>, <<"&">>)
        nbsp == ReplaceAll(amp, <<"&", "nbsp;">>, <<" ">>)
        quot == ReplaceAll(nbsp, <<"&", "quot;">>, <<"\"">>)
    IN  TrimText(StripLineStarts(quot, TRUE))

\* escapeMarkdownText
EscapeMarkdownText(text) ==
    ReplaceAll(ReplaceAll(ReplaceAll(text, <<"\\">>, <<"\\", "\\">>),
                          <<"[">>, <<"\\", "[">>),
               <<"]">>, <<"\\", "]">>)

\* href.replace(/\\/g, '%5C').replace(/\)/g, '%29')
SafeHref(href) ==
    ReplaceAll(ReplaceAll(href, <<"\\">>, <<"%5C">>), <<")">>, <<"%29">>)

\* String.prototype.toLowerCase on a token
LowerToken(t) ==
    IF t = "JavaScript:" THEN "javascript:"
    ELSE IF t = "DATA:" THEN "data:"
    ELSE IF t = "VBScript:" THEN "vbscript:"
    ELSE t

LowerCase(s) == [k \in 1..Len(s) |-> LowerToken(s[k])]

\* A node of the tree handed to the transducer.  tag "#text" is a text
\* node, "#comment" a node that is neither text nor element; cls is the
\* keyword the class attribute contains, parent the tag of the parent
\* element.
DomNode(tag, cls, text, children) ==
    [tag |-> tag, cls |-> cls, parent |-> "", href |-> <<>>, src |-> <<>>,
     alt |-> <<>>, base64 |-> <<>>, width |-> 0, start |-> <<>>,
     text |-> text,
     children |-> [k \in 1..Len(children) |->
                      [children[k] EXCEPT !.parent = tag]]]

TextNode(text) == DomNode("#text", "", text, <<>>)

Element(tag, cls, children) == DomNode(tag, cls, <<>>, children)

Anchor(href, cls, children) ==
    [Element("a", cls, children) EXCEPT !.href = href]

Image(src, alt, cls, base64, width) ==
    [Element("img", cls, <<>>) EXCEPT
        !.src = src, !.alt = alt, !.base64 = base64, !.width = width]

\* the class names that mark UI components
UiClasses == {"copy", "edit", "regenerate", "citation-pill"}

SkippedTags == {"svg", "script", "style", "noscript"}

HeadingTags == {"h1", "h2", "h3", "h4", "h5", "h6"}

TransparentTags ==
    {"span", "div", "article", "section", "main", "header", "footer",
     "aside", "nav"}

\* the tags convertElementToMarkdown names
DispatchTags ==
    {"button", "p", "strong", "b", "em", "i", "code", "pre", "ul", "ol",
     "table", "img", "canvas", "br", "hr", "a", "blockquote", "template"}
        \cup SkippedTags \cup HeadingTags \cup TransparentTags

RECURSIVE TextContent(_)
\* Node.textContent
TextContent(node) ==
    IF node.tag = "#text" THEN node.text
    ELSE IF node.tag = "#comment" THEN <<>>
    ELSE Flatten([k \in 1..Len(node.children) |->
                     TextContent(node.children[k])])

RECURSIVE Descendants(_)
\* the descendants of an element in document order
Descendants(node) ==
    Flatten([k \in 1..Len(node.children) |->
                <<node.children[k]>> \o Descendants(node.children[k])])

\* element.querySelector(tag): a one-element sequence, or the empty one
QuerySelectorTag(node, tag) ==
    LET found == SelectSeq(Descendants(node), LAMBDA d : d.tag = tag)
    IN  IF found = <<>> THEN <<>> ELSE <<Head(found)>>

\* codeEl.className.match(/language-([a-zA-Z0-9]+)/)
Language(cls) == IF cls = "language-js" THEN <<"js">> ELSE <<>>

Hashes(tag) ==
    CASE tag = "h1" -> <<"#">>
      [] tag = "h2" -> <<"#", "#">>
      [] tag = "h3" -> <<"#", "#", "#">>
      [] tag = "h4" -> <<"#", "#", "#", "#">>
      [] tag = "h5" -> <<"#", "#", "#", "#", "#">>
      [] OTHER -> <<"#", "#", "#", "#", "#", "#">>

Blank == <<"\n", "\n">>

\* the img case of convertElementToMarkdown
ConvertImage(element) ==
    LET imgAlt == IF element.alt # <<>>
                     /\ Head(element.alt) \notin {"http://", "https://"}
                  THEN element.alt
                  ELSE <<"Image">>
        imgSrc == IF StartsWith(element.src, <<"blob:">>)
                  THEN Tail(element.src)
                  ELSE element.src
    IN  IF \/ \E k \in 1..Len(element.src) :
                 element.src[k] \in {"favicon", "avatar"}
           \/ Includes(element.cls, "icon")
           \/ (element.width # 0 /\ element.width < 48)
        THEN <<>>
        ELSE Blank \o <<"!", "[">> \o imgAlt \o <<"]", "(">>
                \o (IF element.base64 # <<>> THEN element.base64 ELSE imgSrc)
                \o <<")">> \o Blank

\* the a case without its check of the target
UnsafeHrefNever(href) == FALSE

\* the disallowed targets of the a case
UnsafeHref(href) ==
    \/ href = <<>>
    \/ StartsWith(LowerCase(href), <<"javascript:">>)
    \/ StartsWith(LowerCase(href), <<"data:">>)
    \/ StartsWith(LowerCase(href), <<"vbscript:">>)
    \/ StartsWith(href, <<"#">>)

RECURSIVE ConvertElementToMarkdown(_)
\* processChildNodes
ProcessChildNodes(element) ==
    Flatten([k \in 1..Len(element.children) |->
                ConvertElementToMarkdown(element.children[k])])

\* getTextContent
GetTextContent(element) ==
    TrimText(NewlinesToSpace(ProcessChildNodes(element)))

\* the a case of convertElementToMarkdown
ConvertAnchor(element) ==
    LET href == TrimText(element.href)
        inner == GetTextContent(element)
        text == IF inner # <<>> THEN inner ELSE href
    IN  IF UnsafeHref(href) THEN ProcessChildNodes(element)
        ELSE <<"[">> \o EscapeMarkdownText(text) \o <<"]", "(">>
                \o SafeHref(href) \o <<")">>

\* the pre case of convertElementToMarkdown
ConvertPre(element) ==
    LET codeEl == QuerySelectorTag(element, "code")
        lang == IF codeEl # <<>> THEN Language(codeEl[1].cls) ELSE <<>>
    IN  Blank \o <<"FENCE">> \o lang \o <<"\n">>
            \o TrimText(TextContent(element)) \o <<"\n", "FENCE">> \o Blank

\* element.querySelectorAll(tag), in document order
QuerySelectorAllTags(node, tags) ==
    SelectSeq(Descendants(node), LAMBDA d : d.tag \in tags)

\* element.querySelectorAll('outer inner') for outer elements that do not
\* contain one another
QuerySelectorAllIn(node, outer, inner) ==
    LET outers == QuerySelectorAllTags(node, {outer})
    IN  Flatten([k \in 1..Len(outers) |->
                    QuerySelectorAllTags(outers[k], {inner})])

RECURSIVE Join(_, _)
\* Array.prototype.join
Join(strings, separator) ==
    IF strings = <<>> THEN <<>>
    ELSE IF Len(strings) = 1 THEN strings[1]
    ELSE strings[1] \o separator \o Join(Tail(strings), separator)

\* '| ' + cells.join(' | ') + ' |'
TableRow(cells) ==
    <<"|", " ">> \o Join(cells, <<" ", "|", " ">>) \o <<" ", "|">>

\* the separator row with one cell whatever the header
TableSeparatorOneCell(headers) == TableRow(<<(<<"-", "-", "-">>)>>)

\* '| ' + headers.map(() => '---').join(' | ') + ' |'
TableSeparator(headers) ==
    TableRow([k \in 1..Len(headers) |-> <<"-", "-", "-">>])

\* convertElementToMarkdown(cell).replace(/\n/g, ' ').trim()
TableCells(cells) ==
    [k \in 1..Len(cells) |->
        TrimText(ReplaceAll(ConvertElementToMarkdown(cells[k]),
                            <<"\n">>, <<" ">>))]

\* convertTableToMarkdown
ConvertTableToMarkdown(table) ==
    LET headerRow == QuerySelectorAllIn(table, "thead", "tr")
        bodyRows == QuerySelectorAllIn(table, "tbody", "tr")
        headers == IF headerRow = <<>> THEN <<>>
                   ELSE TableCells(QuerySelectorAllTags(headerRow[1], {"th"}))
        head == IF Len(headers) > 0
                THEN <<TableRow(headers), TableSeparator(headers)>>
                ELSE <<>>
        cells == [k \in 1..Len(bodyRows) |->
                     TableCells(QuerySelectorAllTags(bodyRows[k],
                                                     {"td", "th"}))]
        filled == SelectSeq(cells, LAMBDA c : Len(c) > 0)
        rows == head \o [k \in 1..Len(filled) |-> TableRow(filled[k])]
    IN  IF Len(rows) > 0 THEN Blank \o Join(rows, <<"\n">>) \o Blank
        ELSE <<>>

\* parseInt(list.getAttribute('start') || '1', 10) for a start attribute
\* that is absent or a decimal numeral
ParseStart(start) ==
    IF start = <<>> THEN 1
    ELSE CHOOSE n \in 0..99 : ToString(n) = start[1]

\* the indentation with one space for each level
ListIndentOneSpace(indent) == [k \in 1..indent |-> " "]

\* '  '.repeat(indent)
ListIndent(indent) == [k \in 1..(2 * indent) |-> " "]

RECURSIVE ConvertListToMarkdown(_, _)
\* the body of the forEach over the child nodes of one li: the pair of
\* textContent and nestedLists
ListItemParts(li, indent) ==
    [textContent |->
        Flatten([k \in 1..Len(li.children) |->
            LET child == li.children[k]
            IN  IF child.tag \in {"ul", "ol"} THEN <<>>
                ELSE IF child.tag = "#text" THEN child.text
                ELSE IF child.tag = "#comment" THEN <<>>
                ELSE ConvertElementToMarkdown(child)]),
     nestedLists |->
        Flatten([k \in 1..Len(li.children) |->
            LET child == li.children[k]
            IN  IF child.tag \in {"ul", "ol"}
                THEN ConvertListToMarkdown(child, indent + 1)
                ELSE <<>>])]

RECURSIVE ListItems(_, _, _, _)
\* the forEach over the direct li children of a list, from the item whose
\* number is itemNum on: the strings pushed to items
ListItems(lis, isOrdered, itemNum, indent) ==
    IF lis = <<>> THEN <<>>
    ELSE LET prefix == IF isOrdered THEN <<ToString(itemNum), ".">>
                       ELSE <<"-">>
             parts == ListItemParts(Head(lis), indent)
             cleanText == TrimText(ReplaceAll(parts.textContent,
                                              <<"\n">>, <<" ">>))
         IN  (IF cleanText # <<>>
              THEN <<ListIndent(indent) \o prefix \o <<" ">> \o cleanText>>
              ELSE <<>>)
             \o (IF parts.nestedLists # <<>>
                 THEN <<TrimEnd(parts.nestedLists)>>
                 ELSE <<>>)
             \o ListItems(Tail(lis), isOrdered, itemNum + 1, indent)

\* convertListToMarkdown
ConvertListToMarkdown(list, indent) ==
    Join(ListItems(SelectSeq(list.children, LAMBDA c : c.tag = "li"),
                   list.tag = "ol", ParseStart(list.start), indent),
         <<"\n">>)

\* the default case with the element dropped
DefaultDrops(element) == <<>>

\* default: return processChildNodes(element)
Default(element) == ProcessChildNodes(element)

\* convertElementToMarkdown
ConvertElementToMarkdown(element) ==
    LET tag == element.tag
    IN  IF tag = "#text" THEN element.text
        ELSE IF tag = "#comment" THEN <<>>
        ELSE IF tag = "button"
        THEN LET img == QuerySelectorTag(element, "img")
             IN  IF img # <<>> THEN ConvertElementToMarkdown(img[1])
                 ELSE <<>>
        ELSE IF tag \in SkippedTags THEN <<>>
        ELSE IF \E c \in UiClasses : Includes(element.cls, c) THEN <<>>
        ELSE IF tag \in HeadingTags
        THEN Blank \o Hashes(tag) \o <<" ">> \o GetTextContent(element)
                \o Blank
        ELSE IF tag = "p" THEN Blank \o ProcessChildNodes(element) \o Blank
        ELSE IF tag \in {"strong", "b"}
        THEN <<"*", "*">> \o ProcessChildNodes(element) \o <<"*", "*">>
        ELSE IF tag \in {"em", "i"}
        THEN <<"*">> \o ProcessChildNodes(element) \o <<"*">>
        ELSE IF tag = "code"
        THEN IF element.parent = "pre" THEN TextContent(element)
             ELSE <<"BACKTICK">> \o TextContent(element) \o <<"BACKTICK">>
        ELSE IF tag = "pre" THEN ConvertPre(element)
        ELSE IF tag \in {"ul", "ol"}
        THEN Blank \o ConvertListToMarkdown(element, 0) \o Blank
        ELSE IF tag = "table" THEN ConvertTableToMarkdown(element)
        ELSE IF tag = "img" THEN ConvertImage(element)
        ELSE IF tag = "canvas"
        THEN Blank \o <<"[", "Canvas Image", "]">> \o Blank
        ELSE IF tag = "br" THEN <<"\n">>
        ELSE IF tag = "hr" THEN Blank \o <<"-", "-", "-">> \o Blank
        ELSE IF tag = "a" THEN ConvertAnchor(element)
        ELSE IF tag = "blockquote"
        THEN Blank \o <<">", " ">>
                \o ReplaceAll(ProcessChildNodes(element), <<"\n">>,
                              <<"\n", ">", " ">>)
                \o Blank
        ELSE IF tag \in TransparentTags THEN ProcessChildNodes(element)
        ELSE IF tag = "template" THEN <<>>
        ELSE Default(element)

\* the child lists of the converted elements
ChildLists ==
    { <<>>,
      <<TextNode(<<"t">>)>>,
      <<TextNode(<<" ">>)>>,
      <<TextNode(<<"[", "t", "]", "\\">>)>>,
      <<Element("b", "", <<TextNode(<<"t">>)>>), TextNode(<<"\n", "u">>)>>,
      <<Element("span", "copy", <<TextNode(<<"x">>)>>), TextNode(<<"t">>)>> }

\* href attributes
Hrefs ==
    { <<>>,
      <<" ">>,
      <<"javascript:", "x">>,
      <<"JavaScript:", "x">>,
      <<" ", "javascript:", "x", " ">>,
      <<"data:", "x">>,
      <<"VBScript:", "x">>,
      <<"#", "x">>,
      <<"https://", "x">>,
      <<"https://", "x", ")", "\\">>,
      <<"https://", "javascript:", "#">> }

\* tags convertElementToMarkdown does not name
OtherTags == {"u", "li", "td", "custom"}

\* the text of pre elements
PreTexts ==
    { <<"x">>,
      <<"x", "\n", " ", " ", "y">>,
      <<" ", "x", "\n", "\t", "y", "\n">>,
      <<"x", "\n", " ", "FENCE">>,
      <<"x", "\n", " ", " ", "FENCE">>,
      <<"x", "\n", "FENCE", "\n", " ", "y">>,
      <<"x", "\n", "\n", "\n", "y">>,
      <<"x", " ", "&", "lt;", "\n", "y">> }

\* a table cell with one text node
Cell(tag, cls, text) == Element(tag, cls, <<TextNode(text)>>)

\* the rows of the thead element of a table; the empty sequence stands for
\* a table without thead
TableHeads ==
    { <<>>,
      <<Element("tr", "", <<Cell("th", "", <<"A">>), Cell("th", "", <<"B">>)>>)>>,
      <<Element("tr", "", <<Cell("th", "", <<"A", "\n", "B">>)>>)>>,
      <<Element("tr", "", <<Cell("th", "copy", <<"A">>), Cell("th", "", <<" ">>),
                             Cell("th", "", <<"C">>)>>)>>,
      <<Element("tr", "", <<Cell("td", "", <<"A">>)>>)>>,
      <<Element("tr", "", <<Cell("th", "", <<"A">>)>>),
        Element("tr", "", <<Cell("th", "", <<"B">>), Cell("th", "", <<"C">>)>>)>> }

\* the rows of the tbody element of a table; the empty sequence stands for
\* a table without tbody
TableBodies ==
    { <<>>,
      <<Element("tr", "", <<Cell("td", "", <<"1">>), Cell("td", "", <<"2">>)>>)>>,
      <<Element("tr", "", <<Cell("td", "", <<"1">>)>>),
        Element("tr", "", <<Cell("th", "", <<"2">>), Cell("td", "", <<"3">>),
                             Cell("td", "", <<"4">>)>>)>>,
      <<Element("tr", "", <<>>),
        Element("tr", "", <<Cell("td", "", <<"1">>), Cell("td", "edit", <<"2">>),
                             Cell("td", "", <<"3", "\n">>)>>)>> }

\* a table element
Table(cls, head, body) ==
    Element("table", cls,
            (IF head = <<>> THEN <<>> ELSE <<Element("thead", "", head)>>)
                \o (IF body = <<>> THEN <<>>
                    ELSE <<Element("tbody", "", body)>>))

\* an li element with one text node followed by other children
Item(cls, text, children) ==
    Element("li", cls, <<TextNode(text)>> \o children)

\* a ul or ol element
List(tag, cls, start, items) ==
    [Element(tag, cls, items) EXCEPT !.start = start]

\* the li children of the converted lists
ItemLists ==
    { <<>>,
      <<Item("", <<"a">>, <<>>), Element("li", "", <<>>),
        Item("", <<" ", "\n">>, <<>>), Item("", <<"b", "\n", "c">>, <<>>)>>,
      <<Element("li", "", <<List("ul", "", <<>>,
                                 <<Item("", <<"n">>, <<>>)>>)>>),
        Item("", <<"a">>, <<>>)>>,
      <<Item("", <<"a">>,
             <<List("ol", "", <<"5">>,
                    <<Item("", <<"x">>, <<>>),
                      Item("", <<"y">>,
                           <<List("ul", "", <<>>,
                                  <<Item("", <<"z">>, <<>>)>>)>>)>>)>>),
        Item("", <<"b">>, <<Element("b", "", <<TextNode(<<"t">>)>>)>>)>>,
      <<Item("", <<"a">>,
             <<List("ul", "", <<>>, <<Item("", <<"p">>, <<>>)>>),
               List("ul", "", <<>>, <<Item("", <<"q">>, <<>>)>>)>>)>>,
      <<Item("copy", <<"k">>, <<>>), Item("", <<"a">>, <<>>)>>,
      <<Item("", <<"a">>,
             <<List("ul", "edit", <<>>, <<Item("", <<"h">>, <<>>)>>)>>)>> }

\* the text of turns that consist of one text node
CleanTexts ==
    { <<"x">>,
      <<" ", "x", "\n", "\n", "\n", "\n", "y", "\n">>,
      <<"x", "\n", " ", "\n", " ", "\n", "y">>,
      <<"x", "\n", "\t", "\n", "\n", "y">>,
      <<"x", "\n", " ", "\n", "y">>,
      <<"&", "lt;", "x", "&", "gt;">>,
      <<"&", "amp;", "x", "&", "nbsp;", "&", "quot;">>,
      <<"&", "amp;", "lt;">>,
      <<"&", "amp;", "amp;", "x">>,
      <<"&", "nbsp;", "x">>,
      <<"x", "\n", " ", " ", "FENCE">> }

ConvertInputs ==
    { Anchor(href, cls, children) :
        href \in Hrefs, cls \in {"", "edit"}, children \in ChildLists }
    \cup
    { Element(tag, cls, children) :
        tag \in OtherTags, cls \in {"", "copy", "markdown"},
        children \in ChildLists }
    \cup
    { Element("pre", "", <<TextNode(t)>>) : t \in PreTexts }
    \cup
    { Element("pre", "", <<Element("code", "language-js", <<TextNode(t)>>)>>) :
        t \in PreTexts }
    \cup
    { Element("div", "", <<TextNode(t)>>) : t \in CleanTexts }
    \cup
    { List(tag, cls, start, items) :
        tag \in {"ul", "ol"}, cls \in {"", "copy"},
        start \in {<<>>, <<"0">>, <<"3">>}, items \in ItemLists }
    \cup
    { Element("button", cls, children) :
        cls \in {"", "copy"},
        children \in { <<>>,
                       <<Image(<<"https://", "photo">>, <<"alt">>, "",
                               <<>>, 0)>> } }
    \cup
    { Table(cls, head, body) :
        cls \in {"", "copy"}, head \in TableHeads, body \in TableBodies }

NoNode == TextNode(<<>>)

ConvertInit ==
    /\ cPc = "element"
    /\ cElement \in ConvertInputs
    /\ cMarkdown = <<>>
    /\ cContent = <<>>
    /\ cAgain = <<>>

ConvertIdle ==
    /\ cPc = "idle"
    /\ cElement = NoNode
    /\ cMarkdown = <<>>
    /\ cContent = <<>>
    /\ cAgain = <<>>

\* let markdown = convertElementToMarkdown(contentElement)
ConvertElement ==
    /\ cPc = "element"
    /\ cMarkdown' = ConvertElementToMarkdown(cElement)
    /\ cPc' = "markdown"
    /\ UNCHANGED <<cElement, cContent, cAgain>>
    /\ UNCHANGED exceptConvert

\* return cleanMarkdown(markdown)
Clean ==
    /\ cPc = "markdown"
    /\ cContent' = CleanMarkdown(cMarkdown)
    /\ cPc' = "content"
    /\ UNCHANGED <<cElement, cMarkdown, cAgain>>
    /\ UNCHANGED exceptConvert

\* cleanMarkdown applied to a text it has returned
CleanAgain ==
    /\ cPc = "content"
    /\ cAgain' = CleanMarkdown(cContent)
    /\ cPc' = "again"
    /\ UNCHANGED <<cElement, cMarkdown, cContent>>
    /\ UNCHANGED exceptConvert

ConvertNext ==
    \/ ConvertElement
    \/ Clean
    \/ CleanAgain

\* ------------------------------------------------------------------------
\* The control flow of a run: the message loop with its embed calls, the
\* correction pass, the generation of the document and the download
\* ------------------------------------------------------------------------
\* the images of a turn that imageToBase64 is called for: one that has to
\* be loaded and one that is complete
RunImages ==
    { Node(0, "img", Src("https", "photo"), FALSE),
      Node(0, "img", Src("https", "photo"), TRUE) }

RunTurns == SeqsUpTo(RunImages, MaxRunImages)

NoCall == Call(0, "none", "none", "none", "none")

RunInit ==
    /\ rMessages \in SeqsUpTo(RunTurns, MaxRunTurns)
    /\ rPc = "start"
    /\ rIndex = 0
    /\ rImage = 1
    /\ rCall = NoCall
    /\ rProcessed = 0
    /\ rI = 0
    /\ rVisited = <<>>
    /\ rTimedOut = FALSE

RunIdle ==
    /\ rMessages = <<>>
    /\ rPc = "idle"
    /\ rIndex = 0
    /\ rImage = 1
    /\ rCall = NoCall
    /\ rProcessed = 0
    /\ rI = 0
    /\ rVisited = <<>>
    /\ rTimedOut = FALSE

\* const messages = findMessages(); if (messages.length === 0) { alert(...);
\* return; }
RunStart ==
    /\ rPc = "start"
    /\ rPc' = IF Len(rMessages) = 0 THEN "returned" ELSE "loop"
    /\ UNCHANGED <<rMessages, rIndex, rImage, rCall, rProcessed, rI, rVisited,
                   rTimedOut>>
    /\ UNCHANGED exceptRun

\* for (let index = 0; index < messages.length; index++): the loop test,
\* and the iteration up to the image loop of processMessageContent
RunLoop ==
    /\ rPc = "loop"
    /\ IF rIndex < Len(rMessages)
       THEN rPc' = "images" /\ rImage' = 1 /\ UNCHANGED rI
       ELSE rPc' = "correct" /\ rI' = 1 /\ UNCHANGED rImage
    /\ UNCHANGED <<rMessages, rIndex, rCall, rProcessed, rVisited, rTimedOut>>
    /\ UNCHANGED exceptRun

\* for (const img of images) { ... await imageToBase64(originalImg) ... } up
\* to the await
RunEmbed ==
    /\ rPc = "images"
    /\ LET imgs == rMessages[rIndex + 1]
       IN  IF rImage > Len(imgs)
           THEN rPc' = "push" /\ UNCHANGED rCall
           ELSE /\ \E raw \in RawOutcomes :
                      rCall' = ImageToBase64(rImage, imgs[rImage], raw)
                /\ rPc' = "await"
    /\ UNCHANGED <<rMessages, rIndex, rImage, rProcessed, rI, rVisited,
                   rTimedOut>>
    /\ UNCHANGED exceptRun

\* the code after the await.  What is left of the call, a timer or a load
\* still pending, can only resolve a promise that is resolved already, and
\* is dropped here.
RunResume ==
    /\ rPc = "await"
    /\ rCall.result # "unset"
    /\ rCall' = NoCall
    /\ rImage' = rImage + 1
    /\ rPc' = "images"
    /\ UNCHANGED <<rMessages, rIndex, rProcessed, rI, rVisited, rTimedOut>>
    /\ UNCHANGED exceptRun

\* the rest of the iteration: the turn is dropped as short or duplicate, or
\* pushed to processedMessages
RunPush ==
    /\ rPc = "push"
    /\ \E pushed \in BOOLEAN :
          rProcessed' = IF pushed THEN rProcessed + 1 ELSE rProcessed
    /\ rIndex' = rIndex + 1
    /\ rPc' = "loop"
    /\ UNCHANGED <<rMessages, rImage, rCall, rI, rVisited, rTimedOut>>
    /\ UNCHANGED exceptRun

\* for (let i = 1; i < processedMessages.length; i++): the loop test and
\* one run of the body
RunCorrect ==
    /\ rPc = "correct"
    /\ IF rI < rProcessed
       THEN /\ rVisited' = Append(rVisited, rI)
            /\ rI' = rI + 1
            /\ UNCHANGED rPc
       ELSE /\ rPc' = "generate"
            /\ UNCHANGED <<rI, rVisited>>
    /\ UNCHANGED <<rMessages, rIndex, rImage, rCall, rProcessed, rTimedOut>>
    /\ UNCHANGED exceptRun

\* processedMessages.forEach(...): the message blocks of the document
RunGenerate ==
    /\ rPc = "generate"
    /\ rPc' = "download"
    /\ UNCHANGED <<rMessages, rIndex, rImage, rCall, rProcessed, rI, rVisited,
                   rTimedOut>>
    /\ UNCHANGED exceptRun

\* the Blob, the link and a.click()
RunDownload ==
    /\ rPc = "download"
    /\ rPc' = "done"
    /\ UNCHANGED <<rMessages, rIndex, rImage, rCall, rProcessed, rI, rVisited,
                   rTimedOut>>
    /\ UNCHANGED exceptRun

\* img.onload = () => resolve(drawImageToBase64(img))
RunLoadSucceeds ==
    /\ rCall.load = "pending"
    /\ \E raw \in RawOutcomes :
          rCall' = Resolve([rCall EXCEPT !.load = "loaded"],
                           DrawImageToBase64(raw), raw)
    /\ UNCHANGED <<rMessages, rPc, rIndex, rImage, rProcessed, rI, rVisited,
                   rTimedOut>>
    /\ UNCHANGED exceptRun

\* img.onerror = () => { ...; resolve(null); }
RunLoadFails ==
    /\ rCall.load = "pending"
    /\ rCall' = Resolve([rCall EXCEPT !.load = "failed"], "null", "loadError")
    /\ UNCHANGED <<rMessages, rPc, rIndex, rImage, rProcessed, rI, rVisited,
                   rTimedOut>>
    /\ UNCHANGED exceptRun

\* time passes while the timer is running
RunTick ==
    /\ rCall.timer = "pending"
    /\ rCall.elapsed < TimeoutMs
    /\ rCall' = [rCall EXCEPT !.elapsed = @ + TickMs]
    /\ UNCHANGED <<rMessages, rPc, rIndex, rImage, rProcessed, rI, rVisited,
                   rTimedOut>>
    /\ UNCHANGED exceptRun

\* setTimeout(() => resolve(null), 5000): the callback runs
RunTimerFires ==
    /\ rCall.timer = "pending"
    /\ rCall.elapsed >= TimeoutMs
    /\ rCall' = Resolve([rCall EXCEPT !.timer = "fired"], "null", "timeout")
    /\ rTimedOut' = (rTimedOut \/ rCall.result = "unset")
    /\ UNCHANGED <<rMessages, rPc, rIndex, rImage, rProcessed, rI, rVisited>>
    /\ UNCHANGED exceptRun

\* the steps of the run itself: synchronous code, and the code after an
\* await once the awaited promise has resolved
RunStep ==
    \/ RunStart
    \/ RunLoop
    \/ RunEmbed
    \/ RunResume
    \/ RunPush
    \/ RunCorrect
    \/ RunGenerate
    \/ RunDownload

RunNext ==
    \/ RunStart
    \/ RunLoop
    \/ RunEmbed
    \/ RunResume
    \/ RunPush
    \/ RunCorrect
    \/ RunGenerate
    \/ RunDownload
    \/ RunLoadSucceeds
    \/ RunLoadFails
    \/ RunTick
    \/ RunTimerFires

\* ------------------------------------------------------------------------
\* Two runs over the same located turns that differ in the outcomes of
\* their embed calls
\* ------------------------------------------------------------------------
\* the text of the located turns
TwinTexts == { <<R("a", 40)>>, <<R("b", 600)>> }

\* A located turn.  identifySender reads the element, the index and the
\* text of the element before it, which are the same in the two runs, so
\* its result is part of the turn.
TwinTurns ==
    [sender : {"You", "ChatGPT"}, reliable : BOOLEAN, text : TwinTexts,
     image : BOOLEAN]

\* what the await of imageToBase64 can return for the image of a turn
EmbedOutcomes(turn) == IF turn.image THEN {"payload", "null"} ELSE {"null"}

\* the target of the image in the Markdown: the data URL when the embed
\* call returned one, the src of the image otherwise
ImageTarget(outcome) ==
    IF outcome = "payload" THEN <<R("d", 2000)>> ELSE <<R("s", 30)>>

\* the converted content of a turn: its text, and for its image a blank
\* line and ![Image](target)
TwinContent(turn, outcome) ==
    IF turn.image
    THEN turn.text
            \o <<R("\n", 2), R("!", 1), R("[", 1), R("I", 5), R("]", 1),
                 R("(", 1)>>
            \o ImageTarget(outcome) \o <<R(")", 1)>>
    ELSE turn.text

\* one iteration of the message processing loop in one run
TwinIteration(run, turn, idx, outcome) ==
    LET content == TwinContent(turn, outcome)
        contentHash == ContentHash(content)
    IN  IF TooShort("markdownImages", <<>>, content) THEN run
        ELSE IF contentHash \in run.seenContent THEN run
        ELSE [processedMessages |->
                 Push(run.processedMessages,
                      Message(turn.sender, turn.reliable, content, idx)),
              seenContent |-> run.seenContent \cup {contentHash}]

\* one iteration of the correction pass in one run
TwinCorrection(run, k) ==
    IF k < Len(run.processedMessages)
    THEN [run EXCEPT
            !.processedMessages = CorrectPair("markdownImages", @, k)]
    ELSE run

NoRun == [processedMessages |-> <<>>, seenContent |-> {}]

TwinInit ==
    /\ tTurns \in SeqsUpTo(TwinTurns, MaxTwinTurns)
    /\ tTurns # <<>>
    /\ tPc = "loop"
    /\ tIndex = 0
    /\ tRuns = <<NoRun, NoRun>>
    /\ tI = 0

TwinIdle ==
    /\ tTurns = <<>>
    /\ tPc = "idle"
    /\ tIndex = 0
    /\ tRuns = <<NoRun, NoRun>>
    /\ tI = 0

\* the message processing loop of both runs: its test, and one iteration
\* with the outcome each run gets from its embed call
TwinLoop ==
    /\ tPc = "loop"
    /\ IF tIndex < Len(tTurns)
       THEN LET turn == tTurns[tIndex + 1]
            IN  /\ \E first \in EmbedOutcomes(turn),
                      second \in EmbedOutcomes(turn) :
                      tRuns' = <<TwinIteration(tRuns[1], turn, tIndex, first),
                                 TwinIteration(tRuns[2], turn, tIndex, second)>>
                /\ tIndex' = tIndex + 1
                /\ UNCHANGED <<tPc, tI>>
       ELSE /\ tPc' = "correct"
            /\ tI' = 1
            /\ UNCHANGED <<tIndex, tRuns>>
    /\ UNCHANGED tTurns
    /\ UNCHANGED exceptTwin

\* the correction pass of both runs: its test, and one iteration
TwinPass ==
    /\ tPc = "correct"
    /\ IF \E r \in 1..2 : tI < Len(tRuns[r].processedMessages)
       THEN /\ tRuns' = <<TwinCorrection(tRuns[1], tI),
                          TwinCorrection(tRuns[2], tI)>>
            /\ tI' = tI + 1
            /\ UNCHANGED tPc
       ELSE /\ tPc' = "done"
            /\ UNCHANGED <<tRuns, tI>>
    /\ UNCHANGED <<tTurns, tIndex>>
    /\ UNCHANGED exceptTwin

TwinNext ==
    \/ TwinLoop
    \/ TwinPass

\* ------------------------------------------------------------------------
\* Specifications
\* ------------------------------------------------------------------------
LocateIdle ==
    /\ LocateInit
    /\ parent = [n \in Nodes |-> 0]

\* a run of the main export logic
Init ==
    /\ PipelineInit /\ LocateIdle /\ SenderIdle /\ EmbedIdle /\ ConvertIdle
    /\ RunIdle /\ TwinIdle

Next == PipelineNext

Spec == Init /\ [][Next]_vars

\* a call of findMessages
InitLocate ==
    /\ PipelineInit /\ LocateInit /\ SenderIdle /\ EmbedIdle /\ ConvertIdle
    /\ RunIdle /\ TwinIdle

NextLocate == LocateNext

SpecLocate == InitLocate /\ [][NextLocate]_vars

\* a call of identifySender
InitSender ==
    /\ PipelineInit /\ variant = "markdownImages" /\ LocateIdle /\ SenderInit
    /\ EmbedIdle /\ ConvertIdle /\ RunIdle /\ TwinIdle

NextSender == SenderIdentify

SpecSender == InitSender /\ [][NextSender]_vars

\* the conversion of the located turns, with the embedding of their images
InitEmbed ==
    /\ PipelineInit /\ LocateIdle /\ SenderIdle /\ EmbedInit /\ ConvertIdle
    /\ RunIdle /\ TwinIdle

NextEmbed == EmbedNext

SpecEmbed == InitEmbed /\ [][NextEmbed]_vars

\* the conversion of one element to Markdown
InitConvert ==
    /\ PipelineInit /\ variant = "markdownImages" /\ LocateIdle /\ SenderIdle
    /\ EmbedIdle /\ ConvertInit /\ RunIdle /\ TwinIdle

NextConvert == ConvertNext

SpecConvert == InitConvert /\ [][NextConvert]_vars

\* the control flow of a run of the Markdown exporter with images
InitRun ==
    /\ PipelineInit /\ variant = "markdownImages" /\ LocateIdle /\ SenderIdle
    /\ EmbedIdle /\ ConvertIdle /\ RunInit /\ TwinIdle

NextRun == RunNext

SpecRun == InitRun /\ [][NextRun]_vars

\* two runs of the Markdown exporter with images over the same turns
InitTwin ==
    /\ PipelineInit /\ variant = "markdownImages" /\ LocateIdle /\ SenderIdle
    /\ EmbedIdle /\ ConvertIdle /\ RunIdle /\ TwinInit

NextTwin == TwinNext

SpecTwin == InitTwin /\ [][NextTwin]_vars

\* the run goes on whenever it can, time passes and a timer whose time has
\* come fires; no load has to end
SpecRunFair ==
    /\ SpecRun
    /\ WF_vars(RunStep)
    /\ WF_vars(RunTick)
    /\ WF_vars(RunTimerFires)

\* ------------------------------------------------------------------------
\* Properties
\* ------------------------------------------------------------------------
Elements(list) == {list[k] : k \in 1..Len(list)}

\* C1: when findMessages returns, its result holds no two elements of
\* which one is an ancestor of the other (of an outer match A and a match B
\* inside it, only A is returned).
C1_NoNestedTurns ==
    lpc = "done" =>
        \A a \in Elements(consolidatedMessages),
           b \in Elements(consolidatedMessages) :
            a # b => ~Contains(parent, a, b)

\* C2: in the Markdown exporter with the reliable flag, no step of the
\* correction pass changes the sender of a record whose reliable is true.
C2_ReliableSenderKept ==
    [][(pc = "correct" /\ variant = "markdownImages") =>
          \A k \in 1..Len(processedMessages) :
              processedMessages[k].reliable =>
                  processedMessages'[k].sender = processedMessages[k].sender]_vars

\* C2, its case: the pass has gone over a reliable record whose two
\* neighbours are unreliable, one of them carrying the same sender.
C2_Witness ==
    /\ variant = "markdownImages"
    /\ pc = "correct"
    /\ i = 3
    /\ Len(processedMessages) = 3
    /\ processedMessages[2].reliable
    /\ ~processedMessages[1].reliable
    /\ ~processedMessages[3].reliable
    /\ processedMessages[3].sender = processedMessages[2].sender
    /\ StrLen(processedMessages[2].content) > 2 * StrLen(processedMessages[3].content)
    /\ StrLen(processedMessages[2].content) > CorrectionFloor

\* C3: in the styled-HTML and the plain Markdown exporter, no step of the
\* correction pass changes the sender of a record whose sender came from a
\* non-empty data-message-author-role attribute.
C3_RoleSenderKept ==
    [][(pc = "correct" /\ variant \in {"html", "markdown"}) =>
          \A k \in 1..Len(processedMessages) :
              processedMessages[k].reliable =>
                  processedMessages'[k].sender = processedMessages[k].sender]_vars

\* the fingerprint of a content: its first 100 characters, whitespace
\* collapsed, trimmed
Fingerprint(content) == Trim(CollapseWhitespace(Substring0(content, 100)))

Fingerprints(list) == {Fingerprint(list[k].content) : k \in 1..Len(list)}

\* a step removes no record and changes neither the content nor the
\* originalIndex of one
RecordsStay ==
    variant \in {"markdownImages", "markdown"} =>
        /\ Len(processedMessages') >= Len(processedMessages)
        /\ \A k \in 1..Len(processedMessages) :
              /\ processedMessages'[k].content = processedMessages[k].content
              /\ processedMessages'[k].originalIndex
                    = processedMessages[k].originalIndex

\* C4: in the two Markdown exporters no two records of processedMessages
\* have the same fingerprint; a turn whose fingerprint an earlier record
\* has is dropped, the earlier record stays, and a record once pushed keeps
\* its place and its content.
C4_DistinctFingerprints ==
    /\ [](variant \in {"markdownImages", "markdown"} =>
            /\ \A j \in 1..Len(processedMessages), k \in 1..Len(processedMessages) :
                  j # k => Fingerprint(processedMessages[j].content)
                              # Fingerprint(processedMessages[k].content)
            /\ last.fate = "duplicate" =>
                  \E k \in 1..Len(processedMessages) :
                      /\ processedMessages[k].originalIndex < last.index
                      /\ Fingerprint(processedMessages[k].content)
                            = Fingerprint(last.content)
            /\ last.fate = "pushed" =>
                  Fingerprint(last.content)
                     \notin Fingerprints(SubSeq(processedMessages, 1,
                                                Len(processedMessages) - 1)))
    /\ [][RecordsStay]_vars

\* C4, its case: a turn was dropped as a duplicate of an earlier record
\* from which its content differs after the first 100 characters.
C4_Witness ==
    /\ variant \in {"markdownImages", "markdown"}
    /\ last.fate = "duplicate"
    /\ \E k \in 1..Len(processedMessages) :
          /\ Fingerprint(processedMessages[k].content) = Fingerprint(last.content)
          /\ processedMessages[k].content # last.content
          /\ Substring0(processedMessages[k].content, 100)
                = Substring0(last.content, 100)

\* C5: the originalIndex values of processedMessages, and of the message
\* blocks generated from it, are indices of located turns and strictly
\* increasing.
C5_DocumentOrder ==
    /\ \A k \in 1..Len(processedMessages) :
          processedMessages[k].originalIndex \in 0..(nMessages - 1)
    /\ \A j \in 1..Len(processedMessages), k \in 1..Len(processedMessages) :
          j < k => processedMessages[j].originalIndex
                      < processedMessages[k].originalIndex
    /\ (nMessages > 0 /\ pc \in {"download", "done"}) =>
          /\ Len(output) = Len(processedMessages)
          /\ \A k \in 1..Len(output) :
                output[k].originalIndex = processedMessages[k].originalIndex
          /\ \A j \in 1..Len(output), k \in 1..Len(output) :
                j < k => output[j].originalIndex < output[k].originalIndex

\* C5, its case: a finished run in which a turn was dropped, the pass
\* rewrote a sender and two records were emitted.
C5_Witness ==
    /\ pc = "done"
    /\ nMessages = 3
    /\ Len(output) = 2
    /\ output[2].originalIndex = 2
    /\ \E k \in 1..Len(writes) : writes[k] > 0

RECURSIVE FirstNonEmpty(_)
FirstNonEmpty(results) ==
    IF results = <<>> THEN <<>>
    ELSE IF Head(results) # <<>> THEN Head(results)
    ELSE FirstNonEmpty(Tail(results))

AllEmpty(results) == \A k \in 1..Len(results) : results[k] = <<>>

\* C6: once the selector loop is over, the candidates are the result of
\* the first query that matched, no query was run after it, and the
\* container fallback is entered exactly if all five queries matched
\* nothing; the filter changes none of this.
C6_FirstMatchWins ==
    lpc # "query" =>
        /\ ~AllEmpty(queried) =>
              /\ messages = FirstNonEmpty(queried)
              /\ queried[Len(queried)] = messages
              /\ AllEmpty(SubSeq(queried, 1, Len(queried) - 1))
        /\ lpc # "queried" =>
              (fallbackUsed <=> (Len(queried) = 5 /\ AllEmpty(queried)))
        /\ lpc = "queried" => ~fallbackUsed

\* C6, its case: the third query was the first to match, the filter
\* rejected every match, and findMessages returned nothing without
\* running a later query or the fallback.
C6_Witness ==
    /\ lpc = "done"
    /\ Len(queried) = 3
    /\ Len(messages) = 2
    /\ validMessages = <<>>
    /\ consolidatedMessages = <<>>
    /\ ~fallbackUsed

\* C7 as stated: in every exporter, a run whose locator returned nothing
\* emits one signal and does nothing else: no attribution, no conversion,
\* no document, no download.
C7_EmptyRunStops ==
    signals # <<>> =>
        /\ Len(signals) = 1
        /\ work = {}
        /\ output = <<>>
        /\ download = "none"

\* C7 as amended: a run whose locator returned nothing emits exactly one
\* signal and attributes and converts nothing; the two Markdown exporters
\* alert and stop without a document or a download, the HTML exporter
\* puts the "No messages found." placeholder into the document and
\* downloads it.
C7_EmptyRunAmended ==
    /\ (pc # "start" /\ nMessages = 0) <=> signals # <<>>
    /\ signals # <<>> =>
          /\ Len(signals) = 1
          /\ work = {}
          /\ processedMessages = <<>>
          /\ variant # "html" =>
                /\ signals = <<"alert">>
                /\ pc = "done"
                /\ output = <<>>
                /\ download = "none"
          /\ variant = "html" =>
                /\ signals = <<"placeholder">>
                /\ output = <<"No messages found.">>
                /\ pc \in {"download", "done"}
                /\ download = (IF pc = "done" THEN "html" ELSE "none")

\* C7, its case: the HTML exporter has finished a run without turns.
C7_Witness ==
    /\ variant = "html"
    /\ nMessages = 0
    /\ pc = "done"
    /\ download = "html"

\* none of the rules 1 to 5 of identifySender applies
NoRuleApplies(e, idx, prevLen) ==
    /\ e.role = ""
    /\ \A k \in 1..Len(e.avatars) :
          ~AvatarIsUser(e.avatars[k]) /\ ~AvatarIsAssistant(e.avatars[k])
    /\ e.textStart \notin AssistantOpeners \cup UserOpeners
    /\ ~(e.hasCodeBlocks /\ e.hasLists /\ StrLen(e.text) > 200)
    /\ ~(idx > 0 /\ prevLen < 100 /\ StrLen(e.text) > 300)
    /\ ~(idx > 0 /\ prevLen > 300 /\ StrLen(e.text) < 100)

\* C8: identifySender always returns "You" or "ChatGPT", and when none of
\* the rules 1 to 5 applies it returns "You" for an even and "ChatGPT" for
\* an odd index.
C8_FallbackAlternates ==
    sResult # NoResult =>
        /\ sResult.sender \in {"You", "ChatGPT"}
        /\ NoRuleApplies(sElement, sIndex, sPrevLength) =>
              /\ sIndex \in {0, 2} => sResult.sender = "You"
              /\ sIndex = 1 => sResult.sender = "ChatGPT"
              /\ sIndex % 2 = 0 <=> sResult.sender = "You"

\* C8, its case: the fallback decided the sender of the turn of index 2.
C8_Witness ==
    /\ sResult # NoResult
    /\ NoRuleApplies(sElement, sIndex, sPrevLength)
    /\ sIndex = 2
    /\ sResult.sender = "You"

HasIndicator(a) == AvatarIsUser(a) \/ AvatarIsAssistant(a)

\* C9: the result of identifySender is that of the first applicable rule
\* in the order role, avatars, openers, structure, relative length,
\* position; it is reliable exactly if the role attribute is non-empty,
\* and then "user" gives "You" and any other role "ChatGPT".
C9_CascadeOrder ==
    sResult # NoResult =>
        LET e == sElement
            n == StrLen(e.text)
            noAvatar == \A k \in 1..Len(e.avatars) : ~HasIndicator(e.avatars[k])
            noOpener == e.textStart \notin AssistantOpeners \cup UserOpeners
            noStructure == ~(e.hasCodeBlocks /\ e.hasLists /\ n > 200)
        IN  /\ sResult.reliable <=> e.role # ""
            /\ e.role = "user" => sResult.sender = "You"
            /\ e.role \notin {"", "user"} => sResult.sender = "ChatGPT"
            /\ (e.role = "" /\ ~noAvatar) =>
                  \E k \in 1..Len(e.avatars) :
                      /\ HasIndicator(e.avatars[k])
                      /\ \A j \in 1..(k - 1) : ~HasIndicator(e.avatars[j])
                      /\ sResult.sender =
                            IF AvatarIsUser(e.avatars[k]) THEN "You" ELSE "ChatGPT"
            /\ (e.role = "" /\ noAvatar /\ e.textStart \in AssistantOpeners) =>
                  sResult.sender = "ChatGPT"
            /\ (e.role = "" /\ noAvatar /\ e.textStart \in UserOpeners) =>
                  sResult.sender = "You"
            /\ (e.role = "" /\ noAvatar /\ noOpener /\ ~noStructure) =>
                  sResult.sender = "ChatGPT"
            /\ (e.role = "" /\ noAvatar /\ noOpener /\ noStructure /\ sIndex > 0
                  /\ sPrevLength < 100 /\ n > 300) =>
                  sResult.sender = "ChatGPT"
            /\ (e.role = "" /\ noAvatar /\ noOpener /\ noStructure /\ sIndex > 0
                  /\ sPrevLength > 300 /\ n < 100) =>
                  sResult.sender = "You"

\* C9, its case: an element with the role "user" on which the avatar, the
\* opener and the structure rule would all have answered "ChatGPT".
C9_Witness ==
    /\ sResult = Attributed("You", TRUE)
    /\ sElement.role = "user"
    /\ sElement.avatars # <<>>
    /\ AvatarIsAssistant(sElement.avatars[1]) /\ ~AvatarIsUser(sElement.avatars[1])
    /\ sElement.textStart \in AssistantOpeners
    /\ sElement.hasCodeBlocks /\ sElement.hasLists /\ StrLen(sElement.text) > 200
    /\ sIndex = 1

\* C10: the correction pass assigns the sender of each record at most
\* once.
C10_SenderAssignedOnce ==
    \A k \in 1..Len(writes) : writes[k] <= 1

\* C16: in every exporter variant the filter of findMessages keeps a
\* candidate element if and only if its trimmed text has at least 5 and at
\* most 100000 characters, it contains no text input or textarea, and it
\* carries neither the typing nor the loading class; nothing else rejects it.
C16_FilterKeeps ==
    filtered # NoFiltered =>
        (filtered.kept <=>
            /\ filtered.textLength >= 5
            /\ filtered.textLength <= 100000
            /\ ~filtered.hasInput
            /\ ~filtered.typing
            /\ ~filtered.loading)

\* the call whose value the run is waiting for or has not taken yet
OpenCalls == {k \in 1..Len(calls) : ~calls[k].consumed}

Unresolved == {k \in 1..Len(calls) : calls[k].result = "unset"}

\* a call that went the asynchronous way: it started a load and a timer
Asynchronous(call) == call.timer # "none"

C11_FirstOutcome ==
    \A k \in OpenCalls :
        Asynchronous(calls[k]) =>
            /\ calls[k].result = "unset"
                  <=> (calls[k].load = "pending" /\ calls[k].timer = "pending")
            /\ calls[k].result \in {"unset", "payload", "null"}
            /\ calls[k].cause = "timeout" =>
                  calls[k].result = "null" /\ calls[k].elapsed >= 5000
            /\ calls[k].cause = "loadError" => calls[k].result = "null"
            /\ calls[k].cause = "drawn" => calls[k].result = "payload"
            /\ (calls[k].load = "pending" /\ calls[k].result # "unset") =>
                  /\ calls[k].result = "null"
                  /\ calls[k].cause = "timeout"
                  /\ calls[k].elapsed >= 5000

C11_ResultStays ==
    LET a == Awaited(calls)
        b == Awaited(calls')
    IN  (a # 0 /\ b # 0 /\ ePc' = ePc /\ calls[a].result # "unset") =>
            /\ calls'[b].result = calls[a].result
            /\ calls'[b].cause = calls[a].cause

\* C11: an imageToBase64 call for an image that is not locally available
\* resolves exactly once, with the outcome of the first of load success,
\* load error and timer expiry; later events never change the result; when
\* the load has not completed the result is null and was not set before the
\* 5 seconds of the timer had passed.
C11_BoundedWait == []C11_FirstOutcome /\ [][C11_ResultStays]_vars

\* a call resolved by its timer while its load is still pending
C11_Witness ==
    \E k \in OpenCalls :
        /\ calls[k].load = "pending"
        /\ calls[k].timer = "fired"
        /\ calls[k].result = "null"
        /\ calls[k].cause = "timeout"

\* C12: over a run, imageToBase64 starts at most one asynchronous load for
\* every original image node, also when several images of a turn share a
\* src and when the HTML exporter visits the node both in
\* processMessageContent and in processElement.
C12_OneLoadPerNode == \A n \in DOMAIN loads : loads[n] <= 1

\* C13: at every moment at most one imageToBase64 call is unresolved; the
\* images of a turn are embedded one after another in document order; the
\* attribution and conversion of a turn start only when every embed call of
\* the turns before it has resolved.
C13_OneCallAtATime ==
    /\ Cardinality(Unresolved) <= 1
    /\ Cardinality(OpenCalls) <= 1
    /\ ePc \in {"turn", "clone", "convert", "finish", "done"} =>
          Unresolved = {} /\ OpenCalls = {}
    /\ OpenCalls # {} => ePc \in {"awaitImage", "awaitElement"}
    /\ started \in {eTurn, eTurn + 1}
    /\ ePc \in {"awaitImage", "awaitElement"} =>
          /\ ePos <= Len(images)
          /\ \A k \in OpenCalls :
                calls[k].node =
                    IF ePc = "awaitElement" THEN ePos
                    ELSE SrcToOriginal(dom.original,
                            dom.clone[Position(dom.clone, images[ePos])].src)

\* the second image of the second turn is being embedded
C13_Witness ==
    /\ eTurn = 1
    /\ ePc = "awaitImage"
    /\ ePos = 2
    /\ Unresolved # {}
    /\ dom.clone[1].base64 = "payload"

FailureCauses == {"icon", "loadError", "timeout", "zeroArea", "securityError"}

C14_AllNull ==
    /\ ~thrown
    /\ \A k \in OpenCalls :
          /\ calls[k].result \in {"unset", "payload", "null"}
          /\ calls[k].cause \in FailureCauses => calls[k].result = "null"

C14_GoesOn ==
    (ePc \in {"awaitImage", "awaitElement"} /\ ePc' # ePc) =>
        /\ ePc' = (IF ePc = "awaitImage" THEN "images" ELSE "elements")
        /\ ePos' = ePos + 1
        /\ eTurn' = eTurn

\* C14: whatever the outcome of an embed call (payload, or null because of
\* a UI-icon source, a load error, the timeout, a zero-area image or an
\* exception of the canvas), no exception leaves imageToBase64 or
\* drawImageToBase64, every failure gives the same null, and the conversion
\* of the turn goes on with the next image.
C14_NeverFatal == []C14_AllNull /\ [][C14_GoesOn]_vars

\* the last turn is finished although the canvas threw for its last image
C14_Witness ==
    /\ ePc = "awaitImage"
    /\ eTurns = 2
    /\ eTurn = 1
    /\ \E k \in OpenCalls :
          calls[k].cause = "securityError" /\ calls[k].result = "null"

\* C15: when the src of the image contains 'favicon' or 'avatar',
\* imageToBase64 returns null at once and starts no load and no timer.
C15_UiIconSkip ==
    \A k \in OpenCalls :
        dom.original[calls[k].node].src.path \in {"favicon", "avatar"} =>
            /\ calls[k].result = "null"
            /\ calls[k].load = "none"
            /\ calls[k].timer = "none"
            /\ loads[calls[k].node] = 0

\* imageToBase64 has returned null for an avatar image
C15_Witness ==
    \E k \in OpenCalls :
        /\ dom.original[calls[k].node].src.path = "avatar"
        /\ calls[k].result = "null"
        /\ calls[k].cause = "icon"

C17_OriginalStays == ePc # "turn" => dom'.original = dom.original

\* C17: the conversion of a turn never changes the source tree: after
\* processMessageContent and processElement have run, the turn element has
\* the same children, attributes and text as before; every removal,
\* replacement and attribute or style write is made on the clone.
C17_SourceNotMutated == [][C17_OriginalStays]_vars

\* a converted turn of the HTML exporter whose clone lost a node and got a
\* data URL and a style written
C17_Witness ==
    /\ variant = "html"
    /\ ePc = "finish"
    /\ Len(dom.clone) < Len(dom.original)
    /\ \E k \in 1..Len(dom.clone) :
          dom.clone[k].base64 = "payload" /\ dom.clone[k].styled

RECURSIVE SplitLines(_)
\* the lines of a text
SplitLines(s) ==
    IF \A k \in 1..Len(s) : s[k] # "\n" THEN <<s>>
    ELSE LET at == CHOOSE k \in 1..Len(s) :
                      s[k] = "\n" /\ \A j \in 1..(k - 1) : s[j] # "\n"
         IN  <<SubSeq(s, 1, at - 1)>> \o SplitLines(SubSeq(s, at + 1, Len(s)))

\* the blanks and tabs a line starts with
Indent(line) == SubSeq(line, 1, Len(line) - Len(SkipHorizontal(line)))

\* C18: in the converted content of a turn, every line between the opening
\* and the closing fence of a code block keeps the leading spaces and tabs
\* it had in the text of the pre element, a fence marker preceded by
\* horizontal whitespace included.
C18_CodeIndentationKept ==
    (cPc = "content" /\ cElement.tag = "pre") =>
        LET code == SplitLines(TrimText(TextContent(cElement)))
            content == SplitLines(cContent)
        IN  Len(content) = Len(code) + 2 =>
                \A k \in 1..Len(code) :
                    Indent(content[k + 1]) = Indent(code[k])

\* the targets the claim names
C19_Disallowed(href) ==
    \/ href = <<>>
    \/ \E scheme \in {"javascript:", "data:", "vbscript:"} :
          href # <<>> /\ LowerToken(Head(href)) = scheme
    \/ href # <<>> /\ Head(href) = "#"

\* the link conversion the claim describes
C19_Link(element) ==
    LET href == TrimText(element.href)
        inner == GetTextContent(element)
    IN  IF C19_Disallowed(href) THEN ProcessChildNodes(element)
        ELSE <<"[">>
                \o EscapeMarkdownText(IF inner # <<>> THEN inner ELSE href)
                \o <<"]", "(">> \o SafeHref(href) \o <<")">>

\* C19 as stated: for every anchor whose trimmed href is empty, starts with
\* javascript:, data: or vbscript: in any case, or starts with '#', the
\* conversion is exactly the inline conversion of the children; for every
\* other href it is [text](href) with the text and the href escaped.
C19_LinkSanitization ==
    (cPc = "markdown" /\ cElement.tag = "a") => cMarkdown = C19_Link(cElement)

Suppressed(element) == \E c \in UiClasses : Includes(element.cls, c)

\* C19, amended: the same for every anchor whose class does not mark it as
\* a UI component; an anchor with such a class converts to the empty
\* string, and its href is no link target either.
C19_LinkSanitizationAmended ==
    (cPc = "markdown" /\ cElement.tag = "a") =>
        /\ cMarkdown = IF Suppressed(cElement) THEN <<>>
                       ELSE C19_Link(cElement)
        /\ C19_Disallowed(TrimText(cElement.href)) =>
              \A k \in 1..Len(cMarkdown) : cMarkdown[k] # "("

\* an anchor with a javascript: target in capitals and a text was converted
C19_Witness ==
    /\ cPc = "markdown"
    /\ cElement.tag = "a"
    /\ cElement.cls = ""
    /\ StartsWith(cElement.href, <<"JavaScript:">>)
    /\ cMarkdown = <<"*", "*", "t", "*", "*", "\n", "u">>

\* C20 as stated: for every element whose tag the dispatch does not name,
\* the conversion is exactly the concatenation of the conversions of its
\* child nodes, in order.
C20_TransparentDefault ==
    (cPc = "markdown" /\ cElement.tag \notin DispatchTags) =>
        cMarkdown = Flatten([k \in 1..Len(cElement.children) |->
                        ConvertElementToMarkdown(cElement.children[k])])

\* C20, amended: the same for every such element whose class does not mark
\* it as a UI component; with such a class the conversion is empty.
C20_TransparentDefaultAmended ==
    (cPc = "markdown" /\ cElement.tag \notin DispatchTags) =>
        cMarkdown = IF Suppressed(cElement) THEN <<>>
                    ELSE Flatten([k \in 1..Len(cElement.children) |->
                            ConvertElementToMarkdown(cElement.children[k])])

\* an element with an unnamed tag and two children was converted
C20_Witness ==
    /\ cPc = "markdown"
    /\ cElement.tag = "custom"
    /\ cElement.cls = "markdown"
    /\ Len(cElement.children) = 2
    /\ cMarkdown = <<"*", "*", "t", "*", "*", "\n", "u">>

\* C21: cleanMarkdown is idempotent: applied to a text it has returned, it
\* returns that text unchanged.
C21_CleanIdempotent == (cPc = "again") => (cAgain = cContent)

\* the th cells of the first row of the thead of a table
C22_HeaderCells(table) ==
    LET theads == SelectSeq(table.children, LAMBDA c : c.tag = "thead")
    IN  IF theads = <<>> \/ theads[1].children = <<>> THEN <<>>
        ELSE SelectSeq(theads[1].children[1].children,
                       LAMBDA c : c.tag = "th")

\* the rows of the tbody of a table that have a cell
C22_BodyRows(table) ==
    LET tbodies == SelectSeq(table.children, LAMBDA c : c.tag = "tbody")
    IN  IF tbodies = <<>> THEN <<>>
        ELSE SelectSeq(tbodies[1].children, LAMBDA r : r.children # <<>>)

\* the number of cells of a row of the output: a row of n cells holds n + 1
\* bars
C22_CellCount(line) == Cardinality({k \in 1..Len(line) : line[k] = "|"}) - 1

\* a separator row: bars and '---' cells only
C22_IsSeparator(line) ==
    /\ C22_CellCount(line) >= 1
    /\ line = TableRow([k \in 1..C22_CellCount(line) |-> <<"-", "-", "-">>])

\* C22: convertTableToMarkdown emits a separator row if and only if it emits
\* a header row, directly after it and with as many '---' cells as the header
\* has cells, whatever the cell counts of the body rows; without a header
\* the output starts with the body rows and has no separator; a table that
\* yields no row gives the empty string; header A, B with the body row 1, 2
\* gives the three lines of the example.
C22_TableShape ==
    (cPc = "markdown" /\ cElement.tag = "table" /\ cElement.cls = "") =>
        LET headers == C22_HeaderCells(cElement)
            body == C22_BodyRows(cElement)
            n == Len(headers)
            first == IF n > 0 THEN 2 ELSE 0
            lines == IF cMarkdown = <<>> THEN <<>>
                     ELSE SplitLines(SubSeq(cMarkdown, 3, Len(cMarkdown) - 2))
        IN  /\ (n = 0 /\ body = <<>>) <=> (cMarkdown = <<>>)
            /\ cMarkdown # <<>> =>
                  /\ SubSeq(cMarkdown, 1, 2) = Blank
                  /\ SubSeq(cMarkdown, Len(cMarkdown) - 1, Len(cMarkdown))
                        = Blank
            /\ Len(lines) = first + Len(body)
            /\ n > 0 =>
                  /\ C22_CellCount(lines[1]) = n
                  /\ C22_IsSeparator(lines[2])
                  /\ C22_CellCount(lines[2]) = n
            /\ \A k \in 1..Len(lines) :
                  /\ C22_IsSeparator(lines[k]) => (n > 0 /\ k = 2)
                  /\ k > first =>
                        C22_CellCount(lines[k])
                            = Len(body[k - first].children)
            /\ cElement = Table("", CHOOSE h \in TableHeads : Len(h) = 1
                                        /\ Len(h[1].children) = 2,
                                CHOOSE b \in TableBodies : Len(b) = 1) =>
                  lines = << <<"|", " ", "A", " ", "|", " ", "B", " ", "|">>,
                             <<"|", " ", "-", "-", "-", " ", "|", " ",
                               "-", "-", "-", " ", "|">>,
                             <<"|", " ", "1", " ", "|", " ", "2", " ", "|">> >>

\* a table with a header of two cells and body rows of one and three cells
\* has been converted
C22_Witness ==
    /\ cPc = "markdown"
    /\ cElement.tag = "table"
    /\ cElement.cls = ""
    /\ Len(C22_HeaderCells(cElement)) = 2
    /\ Len(C22_BodyRows(cElement)) = 2
    /\ Len(SplitLines(cMarkdown)) = 8

\* the direct li children of a list
C23_Items(list) == SelectSeq(list.children, LAMBDA c : c.tag = "li")

\* the ul and ol children of an li
C23_Nested(li) == SelectSeq(li.children, LAMBDA c : c.tag \in {"ul", "ol"})

\* the inline text of an li: its children other than lists, converted, with
\* newlines turned into blanks and trimmed
C23_Text(li) ==
    LET inline == SelectSeq(li.children, LAMBDA c : c.tag \notin {"ul", "ol"})
    IN  TrimText(ReplaceAll(
            Flatten([j \in 1..Len(inline) |->
                        ConvertElementToMarkdown(inline[j])]),
            <<"\n">>, <<" ">>))

RECURSIVE C23_Lines(_, _)
\* the lines the claim gives a list at nesting depth d: for the k-th direct
\* item, when its inline text is not empty, 2 * d blanks, the marker, a
\* blank and the text, followed by the lines of its nested lists at depth
\* d + 1
C23_Lines(list, d) ==
    LET items == C23_Items(list)
        s == IF list.start = <<"0">> THEN 0
             ELSE IF list.start = <<"3">> THEN 3
             ELSE IF list.start = <<"5">> THEN 5
             ELSE 1
    IN  Flatten([k \in 1..Len(items) |->
            LET marker == IF list.tag = "ol"
                          THEN <<ToString(s + k - 1), ".">>
                          ELSE <<"-">>
                text == C23_Text(items[k])
                nested == C23_Nested(items[k])
            IN  (IF text # <<>>
                 THEN <<[j \in 1..(2 * d) |-> " "] \o marker \o <<" ">>
                            \o text>>
                 ELSE <<>>)
                \o Flatten([j \in 1..Len(nested) |->
                               C23_Lines(nested[j], d + 1)])])

RECURSIVE C23_SingleNested(_)
\* no item of the list, at any depth, holds more than one nested list
C23_SingleNested(list) ==
    \A k \in 1..Len(C23_Items(list)) :
        LET nested == C23_Nested(C23_Items(list)[k])
        IN  /\ Len(nested) <= 1
            /\ \A j \in 1..Len(nested) : C23_SingleNested(nested[j])

\* C23: in the output of convertListToMarkdown the k-th direct item of an
\* ordered list with start s carries the marker 's+k-1.', the count going
\* on over items that emit no line; items of an unordered list carry '-';
\* every line of a list at nesting depth d starts with 2 * d blanks; an
\* item with empty inline text and a nested list gives the nested block
\* and no line of its own.
C23_ListShape ==
    (cPc = "markdown" /\ cElement.tag \in {"ul", "ol"} /\ cElement.cls = "") =>
        LET body == SubSeq(cMarkdown, 3, Len(cMarkdown) - 2)
            lines == IF body = <<>> THEN <<>> ELSE SplitLines(body)
            expected == C23_Lines(cElement, 0)
        IN  /\ Len(cMarkdown) >= 4
            /\ SubSeq(cMarkdown, 1, 2) = Blank
            /\ SubSeq(cMarkdown, Len(cMarkdown) - 1, Len(cMarkdown)) = Blank
            /\ C23_SingleNested(cElement) => lines = expected
            /\ \A k \in 1..Len(lines) :
                  \E e \in 1..Len(expected) :
                      StartsWith(lines[k], expected[e])

\* an ordered list that starts at 3 and holds an ordered list that starts
\* at 5, which holds an unordered list, has been converted
C23_Witness ==
    /\ cPc = "markdown"
    /\ cElement.tag = "ol"
    /\ cElement.cls = ""
    /\ cElement.start = <<"3">>
    /\ SplitLines(SubSeq(cMarkdown, 3, Len(cMarkdown) - 2))
          = << <<"3", ".", " ", "a">>,
               <<" ", " ", "5", ".", " ", "x">>,
               <<" ", " ", "6", ".", " ", "y">>,
               <<" ", " ", " ", " ", "-", " ", "z">>,
               <<"4", ".", " ", "b", "*", "*", "t", "*", "*">> >>

\* the class attribute of an element contains one of the UI class names
C26_UiClass(element) == \E c \in UiClasses : Includes(element.cls, c)

\* C26: an element whose class attribute contains 'copy', 'edit',
\* 'regenerate' or 'citation-pill' contributes the empty string to the
\* output whatever its tag: the converted element itself, a button that
\* wraps an image included, gives the empty string, and no text of such an
\* li or nested list of a converted list appears in the output.
C26_ClassBeforeTag ==
    (cPc = "markdown") =>
        /\ C26_UiClass(cElement) => cMarkdown = <<>>
        /\ cElement.tag \in {"ul", "ol"} =>
              \A k \in 1..Len(Descendants(cElement)) :
                  LET d == Descendants(cElement)[k]
                  IN  (d.tag \in {"li", "ul", "ol"} /\ C26_UiClass(d)) =>
                          \A j \in 1..Len(TextContent(d)) :
                              \A m \in 1..Len(cMarkdown) :
                                  cMarkdown[m] # TextContent(d)[j]

\* C24: when the correction pass has finished, no two adjacent records that
\* are both unreliable carry the same sender.
C24_NeighboursDiffer ==
    (variant = "markdownImages" /\ pc \in {"download", "done"}) =>
        \A k \in 1..(Len(processedMessages) - 1) :
            (~processedMessages[k].reliable
                /\ ~processedMessages[k + 1].reliable) =>
                processedMessages[k].sender # processedMessages[k + 1].sender

\* C25: a turn whose converted content is empty or shorter than the minimum
\* length is dropped and adds nothing to the fingerprint set: no such turn
\* is pushed or dropped as a duplicate, the fingerprint set has one member
\* for each record, and in the Markdown exporters it is the set of the
\* fingerprints of the records.
C25_DropBeforeFingerprint ==
    /\ last.fate \in {"pushed", "duplicate"} =>
          /\ last.content # <<>>
          /\ StrLen(Trim(last.content)) >= MinLength(variant)
    /\ last.fate = "short" =>
          \A k \in 1..Len(processedMessages) :
              processedMessages[k].originalIndex # last.index
    /\ Cardinality(seenContent) = Len(processedMessages)
    /\ variant \in {"markdownImages", "markdown"} =>
          seenContent = Fingerprints(processedMessages)

\* C27: in the HTML exporter, whenever processElement is called for a child
\* of the content element together with a node of the source tree, that
\* node is the one the child was cloned from: it has the same position in
\* the original and the same tag.
C27_CloneOriginalPaired ==
    (variant = "html" /\ ePc = "elements" /\ ePos <= Len(images)
        /\ ePos <= Len(dom.original)) =>
        LET element == dom.clone[Position(dom.clone, images[ePos])]
            originalElement == dom.original[ePos]
        IN  /\ element.id = ePos
            /\ element.tag = originalElement.tag

\* C29: when an imageToBase64 call has resolved, neither its timer nor its
\* load is pending; so no timer or load of a call whose value has been
\* taken is in flight either.
C29_NothingOutlivesCall ==
    \A k \in 1..Len(calls) :
        calls[k].result # "unset" =>
            calls[k].load # "pending" /\ calls[k].timer # "pending"

\* the values of i the correction pass has to run its body for
C30_Pairs == [k \in 1..(IF rProcessed > 0 THEN rProcessed - 1 ELSE 0) |-> k]

\* the run has reached the generation of the document: every turn has
\* gone through the loop, no call is open, and the correction pass has
\* visited every adjacent pair once, from left to right
C30_Assembled ==
    /\ rPc = "generate"
    /\ rIndex = Len(rMessages)
    /\ rCall = NoCall
    /\ rVisited = C30_Pairs

\* every call that is unresolved resolves
C30_CallResolves == (rCall.result = "unset") ~> (rCall.result # "unset")

\* C30: for every list of located turns, given that timers fire, every
\* imageToBase64 call resolves, every turn is processed, the correction
\* pass visits each adjacent pair once from left to right, and the run
\* reaches the assembly of the document.
C30_Termination == C30_CallResolves /\ <>C30_Assembled

\* C30 as amended: the same for every list that holds a turn; with no turn
\* located the run returns after its alert and assembles nothing.
C30_TerminationAmended ==
    /\ C30_CallResolves
    /\ (Len(rMessages) > 0) => <>C30_Assembled
    /\ (Len(rMessages) = 0) => <>[](rPc = "returned")
    /\ [](\A k \in 1..Len(rVisited) : rVisited[k] = k)

\* a run over three turns in which a call was resolved by its timer has
\* pushed three records and reached the generation of the document
C30_Witness ==
    /\ rPc = "generate"
    /\ Len(rMessages) = 3
    /\ rProcessed = 3
    /\ rVisited = <<1, 2>>
    /\ rTimedOut

\* the originalIndex and the sender of each record
C28_Speakers(list) ==
    [k \in 1..Len(list) |-> <<list[k].originalIndex, list[k].sender>>]

\* C28: two runs over the same located turns that differ only in what their
\* embed calls return end with the same sequence of originalIndex and
\* sender.
C28_SpeakersSame ==
    tPc = "done" =>
        C28_Speakers(tRuns[1].processedMessages)
            = C28_Speakers(tRuns[2].processedMessages)

====
